---- MODULE Spec2Model ----
(***************************************************************************)
(* cert-observer: the in-memory ingress cache (internal/cache), modelled   *)
(* over an explicit heap.  Go stores and returns pointers, so every        *)
(* *IngressInfo, *CertificateInfo and *time.Time is a heap cell and every  *)
(* field that holds one is an address: aliasing between the cache, its     *)
(* callers and the copies it hands out is visible in the model.            *)
(***************************************************************************)
EXTENDS Integers, Sequences, FiniteSets, TLC

VARIABLES
    heap,       \* the Go heap: a sequence of cells, a cell's address is its index
    items,      \* IngressCache.items: key string -> address of an IngressInfo
    snap,       \* the slice the last GetAll returned to the caller
    last,       \* the call that completed last, with its arguments
    before,     \* what the cache held when that call started
    nops,       \* number of calls made so far
    mu,         \* IngressCache.mu: the writer that holds it, the readers that hold it
    pc,         \* where each concurrent caller is in its call
    loc,        \* each concurrent caller's arguments and local variables
    committed,  \* what the cache held when the last writer released mu
    window,     \* per GetAll in flight: what the cache held at its start and after each write since
    fatal,      \* the Go runtime has met unsynchronised access to the map or an entry
    env,        \* the process environment as config.Load read it
    rpc,        \* where the process is in config.Load, Start and sendReport
    cfg,        \* HTTPReporter.config
    attempt,    \* sendReport's loop variable
    timer,      \* the seconds time.Sleep has still to sleep
    failureCount, \* HTTPReporter.failureCount
    logged,     \* what Start and sendReport logged when the last cycle returned
    ctxDone,    \* the context passed to Start has been cancelled
    ticker,     \* ticker.C: "none" before time.NewTicker, then "empty" or "tick"
    jsonData,   \* the report sendReport marshalled for this cycle
    cycle,      \* the cycle in progress or just ended: how it started and what happened in it
    history,    \* how each cycle that has ended returned, oldest first
    ncycles,    \* the cycles started so far
    nticks,     \* the ticks the ticker has delivered so far
    api,        \* the Ingresses and Secrets as the manager's informers hold them
    queue,      \* the work queues of the Ingress and of the Secret controller
    worker,     \* the Reconcile each controller is running, and what it has read
    nevents     \* the change events delivered so far

seqvars == <<snap, last, before, nops>>
\* the controllers' variables: the cache's callers and the reporter leave them alone
ctlvars == <<api, queue, worker, nevents>>
lockvars == <<mu, pc, loc, committed, window, fatal>>
reportervars == <<env, rpc, cfg, attempt, timer, failureCount, logged, ctxDone, ticker, jsonData, cycle,
                  history, ncycles, nticks>>
concvars == <<lockvars, ctlvars>>
repvars == <<reportervars, ctlvars>>
vars == <<heap, items, seqvars, lockvars, reportervars, ctlvars>>

(***************************************************************************)
(* Bounds and input domains                                                *)
(***************************************************************************)
MaxOps == 3
NumProcs == 3
Procs == 1..NumProcs

clusterName == "k"
Namespaces == {"a", "ab"}
Names == {"c", "bc"}
CertNames == {"cA", "cB"}
Times == {1, 2}
\* the key the concurrent callers contend for
ConcNamespaces == {"a"}
ConcNames == {"c"}

\* the nil pointer
NIL == 0

(***************************************************************************)
(* Values: what a caller writes down when it builds an entry, and what a   *)
(* reader sees when it follows the pointers of one.                        *)
(***************************************************************************)
NoTime == 0
NoCert == [present |-> FALSE, Name |-> "", Expires |-> NoTime]
CertValue(n, t) == [present |-> TRUE, Name |-> n, Expires |-> t]
HostValue(h, c) == [Host |-> h, Certificate |-> c]

\* The host lists callers pass to Add, after the shapes the cache tests use:
\* a host without a certificate, a certificate of unknown expiry, one of known
\* expiry, and a second host that shares or does not share the first's
\* certificate.
FirstCerts == {NoCert, CertValue("cA", NoTime), CertValue("cB", 1)}
HostLists ==
    {<<HostValue("h1", c)>> : c \in FirstCerts}
    \cup {<<HostValue("h1", c), HostValue("h2", CertValue("cA", NoTime))>> : c \in FirstCerts}

(***************************************************************************)
(* Heap cells                                                              *)
(***************************************************************************)
IngressInfo(ns, n, hs) == [kind |-> "IngressInfo", Namespace |-> ns, Name |-> n, Hosts |-> hs]
HostInfo(h, c) == [Host |-> h, Certificate |-> c]
CertificateInfo(n, e) == [kind |-> "CertificateInfo", Name |-> n, Expires |-> e]
Time(t) == [kind |-> "Time", val |-> t]

\* &t for an optional time value: (heap, address)
NewTime(h, t) ==
    IF t = NoTime THEN [heap |-> h, addr |-> NIL]
    ELSE [heap |-> Append(h, Time(t)), addr |-> Len(h) + 1]

\* &CertificateInfo{Name: n, Expires: &t} for an optional certificate value
NewCertificate(h, c) ==
    IF ~c.present THEN [heap |-> h, addr |-> NIL]
    ELSE LET t == NewTime(h, c.Expires)
         IN [heap |-> Append(t.heap, CertificateInfo(c.Name, t.addr)), addr |-> Len(t.heap) + 1]

\* []HostInfo{...} built by a caller from a list of host values
RECURSIVE NewHosts(_, _)
NewHosts(h, hv) ==
    IF hv = <<>> THEN [heap |-> h, hosts |-> <<>>]
    ELSE LET c == NewCertificate(h, Head(hv).Certificate)
             r == NewHosts(c.heap, Tail(hv))
         IN [heap |-> r.heap, hosts |-> <<HostInfo(Head(hv).Host, c.addr)>> \o r.hosts]

\* &IngressInfo{Namespace: ns, Name: n, Hosts: ...}
NewIngressInfo(h, ns, n, hv) ==
    LET hs == NewHosts(h, hv)
    IN [heap |-> Append(hs.heap, IngressInfo(ns, n, hs.hosts)), addr |-> Len(hs.heap) + 1]

(***************************************************************************)
(* Reading through pointers                                                *)
(***************************************************************************)
TimeAt(h, a) == IF a = NIL THEN NoTime ELSE h[a].val
CertAt(h, a) == IF a = NIL THEN NoCert ELSE CertValue(h[a].Name, TimeAt(h, h[a].Expires))
HostsAt(h, hs) == [i \in 1..Len(hs) |-> HostValue(hs[i].Host, CertAt(h, hs[i].Certificate))]
InfoAt(h, a) == [Namespace |-> h[a].Namespace, Name |-> h[a].Name, Hosts |-> HostsAt(h, h[a].Hosts)]

\* the cache by value: key -> the entry stored under it
StoreValue(h, it) == [k \in DOMAIN it |-> InfoAt(h, it[k])]

(***************************************************************************)
(* internal/cache/ingress_cache.go                                         *)
(***************************************************************************)
\* the key built without its separators
makeKeyNoSep(c, ns, n) == c \o ns \o n

\* the key built without the namespace
makeKeyNoNamespace(c, ns, n) == c \o "/" \o n

\* makeKey
makeKey(c, ns, n) == c \o "/" \o ns \o "/" \o n

\* c.items[key] = info
MapPut(m, k, v) == [x \in DOMAIN m \cup {k} |-> IF x = k THEN v ELSE m[x]]

\* delete(c.items, key)
MapDelete(m, k) == [x \in DOMAIN m \ {k} |-> m[x]]

\* Add that keeps an entry already stored under the key
AddBodyIfAbsent(it, h, info) ==
    IF makeKey(clusterName, h[info].Namespace, h[info].Name) \in DOMAIN it THEN it
    ELSE MapPut(it, makeKey(clusterName, h[info].Namespace, h[info].Name), info)

\* the body of Add, run with c.mu held: items after the call
AddBody(it, h, info) ==
    MapPut(it, makeKey(clusterName, h[info].Namespace, h[info].Name), info)

\* Delete that builds its key without the cluster name
DeleteBodyBareKey(it, ns, n) == MapDelete(it, ns \o "/" \o n)

\* the body of Delete, run with c.mu held: items after the call
DeleteBody(it, ns, n) == MapDelete(it, makeKey(clusterName, ns, n))

\* infoCopy := &IngressInfo{..., Hosts: make([]HostInfo, len(info.Hosts))}
AllocCopy(h, info) ==
    [heap |-> Append(h, IngressInfo(h[info].Namespace, h[info].Name,
                                    [i \in 1..Len(h[info].Hosts) |-> HostInfo("", NIL)])),
     addr |-> Len(h) + 1]

\* one iteration of GetAll's inner loop: the heap after infoCopy.Hosts[i]
\* is set from info.Hosts[i]
CopyHost(h, info, copy, i) ==
    LET host == h[info].Hosts[i]
    IN IF host.Certificate # NIL
       THEN [Append(h, CertificateInfo(h[host.Certificate].Name, h[host.Certificate].Expires))
                EXCEPT ![copy].Hosts[i] = HostInfo(host.Host, Len(h) + 1)]
       ELSE [h EXCEPT ![copy].Hosts[i] = HostInfo(host.Host, NIL)]

\* GetAll's inner loop from host i on
RECURSIVE CopyHosts(_, _, _, _)
CopyHosts(h, info, copy, i) ==
    IF i > Len(h[info].Hosts) THEN h
    ELSE CopyHosts(CopyHost(h, info, copy, i), info, copy, i + 1)

\* one iteration of GetAll's outer loop: the deep copy of *info
CopyInfo(h, info) ==
    LET c == AllocCopy(h, info)
    IN [heap |-> CopyHosts(c.heap, info, c.addr, 1), addr |-> c.addr]

\* the body of GetAll, run with c.mu read-held, ranging over the map in
\* the order keys: (heap, result)
RECURSIVE GetAllBody(_, _, _)
GetAllBody(h, it, keys) ==
    IF keys = <<>> THEN [heap |-> h, result |-> <<>>]
    ELSE LET c == CopyInfo(h, it[Head(keys)])
             r == GetAllBody(c.heap, it, Tail(keys))
         IN [heap |-> r.heap, result |-> <<c.addr>> \o r.result]

\* the orders in which Go may range over a map with these keys
RECURSIVE RangeOrders(_)
RangeOrders(S) ==
    IF S = {} THEN {<<>>}
    ELSE UNION {{<<k>> \o o : o \in RangeOrders(S \ {k})} : k \in S}

(***************************************************************************)
(* UpdateCertificate(namespace, secretName, expires): called by the secret *)
(* controller and the cache tests; its body is not among the sources.      *)
(***************************************************************************)
\* the hosts of one entry that the update writes to
Matching(h, info, ns, c) ==
    {i \in 1..Len(h[info].Hosts) :
        /\ h[info].Namespace = ns
        /\ h[info].Hosts[i].Certificate # NIL
        /\ h[h[info].Hosts[i].Certificate].Name = c}

\* the certificate cells the update writes to
MatchingCerts(h, it, ns, c) ==
    {a \in 1..Len(h) : \E k \in DOMAIN it : \E i \in Matching(h, it[k], ns, c) :
                            h[it[k]].Hosts[i].Certificate = a}

\* UpdateCertificate that does not compare the namespace
UpdateCertificateAnyNamespace(h, it, ns, c, e) ==
    LET hit == {a \in 1..Len(h) : \E k \in DOMAIN it :
                    \E i \in Matching(h, it[k], h[it[k]].Namespace, c) : h[it[k]].Hosts[i].Certificate = a}
    IN [a \in 1..Len(h) |-> IF a \in hit THEN [h[a] EXCEPT !.Expires = e] ELSE h[a]]

\* UpdateCertificate that does not compare the certificate name
UpdateCertificateAnyName(h, it, ns, c, e) ==
    LET hit == {a \in 1..Len(h) : \E k \in DOMAIN it : \E i \in 1..Len(h[it[k]].Hosts) :
                    /\ h[it[k]].Namespace = ns
                    /\ h[it[k]].Hosts[i].Certificate = a}
    IN [a \in 1..Len(h) |-> IF a \in hit THEN [h[a] EXCEPT !.Expires = e] ELSE h[a]]

\* UpdateCertificate that returns early on a nil expiry
UpdateCertificateSkipNil(h, it, ns, c, e) ==
    LET hit == MatchingCerts(h, it, ns, c)
    IN [a \in 1..Len(h) |-> IF a \in hit /\ e # NIL THEN [h[a] EXCEPT !.Expires = e] ELSE h[a]]

\* the body of UpdateCertificate, run with c.mu held: the heap after
\* certificate.Expires = expires on every matching binding
UpdateCertificateBody(h, it, ns, c, e) ==
    LET hit == MatchingCerts(h, it, ns, c)
    IN [a \in 1..Len(h) |-> IF a \in hit THEN [h[a] EXCEPT !.Expires = e] ELSE h[a]]

\* one iteration of UpdateCertificate's loop over the hosts of *info
UpdateHost(h, info, i, ns, c, e) ==
    IF i \in Matching(h, info, ns, c)
    THEN [h EXCEPT ![h[info].Hosts[i].Certificate].Expires = e]
    ELSE h

(***************************************************************************)
(* One caller at a time: each call takes c.mu, runs its body and releases  *)
(* it before the next call starts.                                         *)
(***************************************************************************)
Call(op, ns, n, hv, c, t) ==
    [op |-> op, Namespace |-> ns, Name |-> n, Hosts |-> hv, Cert |-> c, Expires |-> t]

NoCall == Call("none", "", "", <<>>, "", NoTime)

\* config.Config, the interval in seconds
Config(cluster, endpoint, interval) ==
    [ClusterName |-> cluster, ReportEndpoint |-> endpoint, ReportInterval |-> interval]
NoConfig == Config("", "", 0)

\* the process environment: a variable that is not set reads as ""
Env(cluster, endpoint, interval) ==
    [CLUSTER_NAME |-> cluster, REPORT_ENDPOINT |-> endpoint, REPORT_INTERVAL |-> interval]
NoEnv == Env("", "", "")
Environments ==
    {Env("", "", ""),
     Env("k", "http://collector:8080/report", "1m"),
     Env("k", "://collector:8080/report", "30s"),
     Env("k", "http://collector:8080/report", "0s"),
     Env("k", "http://collector:8080/report", "-5s"),
     Env("k", "http://collector:8080/report", "invalid")}

\* a line of the log: its level (info, v1 and v2 for V(1) and V(2), error),
\* its message, the error of the cycle it is about and whether that was the
\* initial report
LogRecord(level, msg, err, initial) ==
    [level |-> level, msg |-> msg, err |-> err, initial |-> initial]
NoLog == LogRecord("none", "", "", FALSE)

\* Report, as marshalled
Report(cluster, ingresses) == [Cluster |-> cluster, Ingresses |-> ingresses]
NoReport == Report("", <<>>)

\* one report cycle: what started it, the ticks delivered before it started,
\* failureCount and the cache when it started, how the cycle before it
\* returned and what the cache held then, the result of each attempt, the
\* backoffs slept, and how sendReport returned; whether the context was
\* cancelled already when the cycle started, the seconds it slept after the
\* context was cancelled, and the error sendReport returned
Cycle(trigger, ticks, count, store, prev, done) ==
    [trigger |-> trigger, ticks |-> ticks, count |-> count, store |-> store,
     prevResult |-> prev.result, prevStore |-> prev.store,
     outcomes |-> <<>>, waits |-> <<>>, result |-> "running",
     late |-> done, lateSleep |-> 0, err |-> ""]
NoCycle ==
    [trigger |-> "none", ticks |-> 0, count |-> 0, store |-> <<>>,
     prevResult |-> "none", prevStore |-> <<>>,
     outcomes |-> <<>>, waits |-> <<>>, result |-> "none",
     late |-> FALSE, lateSleep |-> 0, err |-> ""]

\* what the informers hold: name -> spec of the Ingresses that exist, and
\* name -> NotAfter of the certificate of the TLS Secrets that exist
Objects(ingress, secret) == [ingress |-> ingress, secret |-> secret]
NoObjects == Objects(<<>>, <<>>)

\* the two work queues: the names to reconcile, each name at most once
Queues(ing, sec) == [ing |-> ing, sec |-> sec]
NoRequests == Queues({}, {})

\* the Reconcile of the Ingress controller: where it is, the name it was
\* asked for, the Ingress it got and the answers to its lookups
IngressWork(stage, name, ing, look) == [stage |-> stage, name |-> name, ing |-> ing, look |-> look]
\* the Reconcile of the Secret controller: where it is, the name it was
\* asked for and the NotAfter it parsed
SecretWork(stage, name, t) == [stage |-> stage, name |-> name, t |-> t]
NoIngressWork == IngressWork("idle", "", [Rules |-> <<>>, TLS |-> <<>>], <<>>)
NoSecretWork == SecretWork("idle", "", 0)
Workers(ing, sec) == [ing |-> ing, sec |-> sec]

\* a concurrent caller's frame: its call, the pointers it passes, and the
\* locals of the method it runs
Frame(call, info, e) ==
    [call |-> call, info |-> info, e |-> e,
     todo |-> {}, src |-> NIL, copy |-> NIL, i |-> 0, result |-> <<>>, ret |-> <<>>]

Idle == Frame(NoCall, NIL, NIL)

Init ==
    /\ heap = <<>>
    /\ items = <<>>
    /\ snap = <<>>
    /\ last = NoCall
    /\ before = <<>>
    /\ nops = 0
    /\ mu = [w |-> 0, r |-> {}]
    /\ pc = [p \in Procs |-> "idle"]
    /\ loc = [p \in Procs |-> Idle]
    /\ committed = <<>>
    /\ window = [p \in Procs |-> {}]
    /\ fatal = FALSE
    /\ env = NoEnv
    /\ rpc = "load"
    /\ cfg = NoConfig
    /\ attempt = 0
    /\ timer = 0
    /\ failureCount = 0
    /\ logged = NoLog
    /\ ctxDone = FALSE
    /\ ticker = "none"
    /\ jsonData = NoReport
    /\ cycle = NoCycle
    /\ history = <<>>
    /\ ncycles = 0
    /\ nticks = 0
    /\ api = NoObjects
    /\ queue = NoRequests
    /\ worker = Workers(NoIngressWork, NoSecretWork)
    /\ nevents = 0

Add(ns, n, hv) ==
    /\ nops < MaxOps
    /\ LET info == NewIngressInfo(heap, ns, n, hv)
       IN /\ heap' = info.heap
          /\ items' = AddBody(items, info.heap, info.addr)
    /\ before' = StoreValue(heap, items)
    /\ last' = Call("Add", ns, n, hv, "", NoTime)
    /\ nops' = nops + 1
    /\ UNCHANGED <<snap, concvars, repvars>>

Delete(ns, n) ==
    /\ nops < MaxOps
    /\ items' = DeleteBody(items, ns, n)
    /\ before' = StoreValue(heap, items)
    /\ last' = Call("Delete", ns, n, <<>>, "", NoTime)
    /\ nops' = nops + 1
    /\ UNCHANGED <<heap, snap, concvars, repvars>>

GetAll ==
    /\ nops < MaxOps
    /\ \E keys \in RangeOrders(DOMAIN items) :
          LET r == GetAllBody(heap, items, keys)
          IN /\ heap' = r.heap
             /\ snap' = r.result
    /\ before' = StoreValue(heap, items)
    /\ last' = Call("GetAll", "", "", <<>>, "", NoTime)
    /\ nops' = nops + 1
    /\ UNCHANGED <<items, concvars, repvars>>

UpdateCertificate(ns, c, t) ==
    /\ nops < MaxOps
    /\ LET e == NewTime(heap, t)
       IN heap' = UpdateCertificateBody(e.heap, items, ns, c, e.addr)
    /\ before' = StoreValue(heap, items)
    /\ last' = Call("UpdateCertificate", ns, "", <<>>, c, t)
    /\ nops' = nops + 1
    /\ UNCHANGED <<items, snap, concvars, repvars>>

Next ==
    \/ \E ns \in Namespaces, n \in Names, hv \in HostLists : Add(ns, n, hv)
    \/ \E ns \in Namespaces, n \in Names : Delete(ns, n)
    \/ GetAll
    \/ \E ns \in Namespaces, c \in CertNames, t \in {NoTime} \cup Times : UpdateCertificate(ns, c, t)

Spec == Init /\ [][Next]_vars

(***************************************************************************)
(* A caller that keeps the slice GetAll returned and assigns to what it    *)
(* reaches from it.  All fields are exported; the DeepCopy test assigns    *)
(* Hosts[0].Host.                                                          *)
(***************************************************************************)
Mutated(m) ==
    /\ before' = StoreValue(heap, items)
    /\ last' = Call(m, "", "", <<>>, "", NoTime)
    /\ nops' = nops + 1
    /\ UNCHANGED <<items, snap, concvars, repvars>>

HostsOf(i) == 1..Len(heap[snap[i]].Hosts)
CertOf(i, j) == heap[snap[i]].Hosts[j].Certificate

\* snap[i].Namespace = "modified"; snap[i].Name = "modified"
SetNamespaceName(i) ==
    /\ nops < MaxOps
    /\ heap' = [heap EXCEPT ![snap[i]].Namespace = "modified", ![snap[i]].Name = "modified"]
    /\ Mutated("SetNamespaceName")

\* snap[i].Hosts[j].Host = "modified.local"
SetHost(i, j) ==
    /\ nops < MaxOps
    /\ heap' = [heap EXCEPT ![snap[i]].Hosts[j].Host = "modified.local"]
    /\ Mutated("SetHost")

\* snap[i].Hosts = snap[i].Hosts[:0]
SetHosts(i) ==
    /\ nops < MaxOps
    /\ heap' = [heap EXCEPT ![snap[i]].Hosts = <<>>]
    /\ Mutated("SetHosts")

\* snap[i].Hosts[j].Certificate = nil
SetCertificate(i, j) ==
    /\ nops < MaxOps
    /\ CertOf(i, j) # NIL
    /\ heap' = [heap EXCEPT ![snap[i]].Hosts[j].Certificate = NIL]
    /\ Mutated("SetCertificate")

\* snap[i].Hosts[j].Certificate.Name = "modified"
SetCertificateName(i, j) ==
    /\ nops < MaxOps
    /\ CertOf(i, j) # NIL
    /\ heap' = [heap EXCEPT ![CertOf(i, j)].Name = "modified"]
    /\ Mutated("SetCertificateName")

\* snap[i].Hosts[j].Certificate.Expires = &t, or = nil
SetExpires(i, j, t) ==
    /\ nops < MaxOps
    /\ CertOf(i, j) # NIL
    /\ LET e == NewTime(heap, t)
       IN heap' = [e.heap EXCEPT ![CertOf(i, j)].Expires = e.addr]
    /\ Mutated("SetExpires")

\* *snap[i].Hosts[j].Certificate.Expires = t
WriteExpires(i, j, t) ==
    /\ nops < MaxOps
    /\ CertOf(i, j) # NIL
    /\ heap[CertOf(i, j)].Expires # NIL
    /\ heap' = [heap EXCEPT ![heap[CertOf(i, j)].Expires].val = t]
    /\ Mutated("WriteExpires")

NextClient ==
    \/ Next
    \/ \E i \in 1..Len(snap) : SetNamespaceName(i)
    \/ \E i \in 1..Len(snap) : \E j \in HostsOf(i) : SetHost(i, j)
    \/ \E i \in 1..Len(snap) : SetHosts(i)
    \/ \E i \in 1..Len(snap) : \E j \in HostsOf(i) : SetCertificate(i, j)
    \/ \E i \in 1..Len(snap) : \E j \in HostsOf(i) : SetCertificateName(i, j)
    \/ \E i \in 1..Len(snap) : \E j \in HostsOf(i) : \E t \in {NoTime} \cup Times : SetExpires(i, j, t)
    \/ \E i \in 1..Len(snap) : \E j \in HostsOf(i) : \E t \in Times : WriteExpires(i, j, t)

SpecClient == Init /\ [][NextClient]_vars

(***************************************************************************)
(* A caller that keeps the *IngressInfo it passed to Add and assigns to    *)
(* what it reaches from it.                                                *)
(***************************************************************************)
\* info := &IngressInfo{...}; c.Add(info), and info is still the caller's
AddAndKeep(ns, n, hv) ==
    /\ nops < MaxOps
    /\ LET info == NewIngressInfo(heap, ns, n, hv)
       IN /\ heap' = info.heap
          /\ items' = AddBody(items, info.heap, info.addr)
          /\ snap' = <<info.addr>>
    /\ before' = StoreValue(heap, items)
    /\ last' = Call("Add", ns, n, hv, "", NoTime)
    /\ nops' = nops + 1
    /\ UNCHANGED <<concvars, repvars>>

NextOwner ==
    \/ \E ns \in Namespaces, n \in Names, hv \in HostLists : AddAndKeep(ns, n, hv)
    \/ \E i \in 1..Len(snap) : SetNamespaceName(i)
    \/ \E i \in 1..Len(snap) : \E j \in HostsOf(i) : SetHost(i, j)
    \/ \E i \in 1..Len(snap) : SetHosts(i)
    \/ \E i \in 1..Len(snap) : \E j \in HostsOf(i) : SetCertificate(i, j)
    \/ \E i \in 1..Len(snap) : \E j \in HostsOf(i) : SetCertificateName(i, j)
    \/ \E i \in 1..Len(snap) : \E j \in HostsOf(i) : \E t \in {NoTime} \cup Times : SetExpires(i, j, t)
    \/ \E i \in 1..Len(snap) : \E j \in HostsOf(i) : \E t \in Times : WriteExpires(i, j, t)

SpecOwner == Init /\ [][NextOwner]_vars

(***************************************************************************)
(* Concurrent callers: each goroutine makes one call, as in the            *)
(* concurrency test.  A call takes c.mu, runs its body one loop iteration  *)
(* at a time, and releases c.mu when it returns (the deferred Unlock).     *)
(***************************************************************************)
\* c.mu.Lock() can return
CanLockNoLock(m) == TRUE

CanLock(m) == m.w = 0 /\ m.r = {}

\* c.mu.RLock() can return
CanRLockNoLock(m) == TRUE

CanRLock(m) == m.w = 0

Writer(p) == loc[p].call.op \in {"Add", "Delete", "UpdateCertificate"}
InCall(p) == pc[p] \in {"Write", "Range", "Host"}

\* Another goroutine is inside a method body while p, or that goroutine,
\* writes: a data race on the map or an entry.  The runtime may stop the
\* program ("concurrent map read and map write") or let it run on.
Racing(p) == \E q \in Procs \ {p} : InCall(q) /\ (Writer(p) \/ Writer(q))
RaceOutcomes(p) == IF Racing(p) THEN {FALSE, TRUE} ELSE {FALSE}

Goto(p, to) == pc' = [pc EXCEPT ![p] = to]

\* the deferred c.mu.Unlock() of a writer that leaves the cache as (h, it)
Unlock(h, it) ==
    /\ mu' = [mu EXCEPT !.w = 0]
    /\ committed' = StoreValue(h, it)
    /\ window' = [q \in Procs |->
                    IF loc[q].call.op = "GetAll" /\ pc[q] # "done"
                    THEN window[q] \cup {StoreValue(h, it)} ELSE window[q]]

CallAdd(p, ns, n, hv) ==
    /\ ~fatal /\ pc[p] = "idle"
    /\ LET info == NewIngressInfo(heap, ns, n, hv)
       IN /\ heap' = info.heap
          /\ loc' = [loc EXCEPT ![p] = Frame(Call("Add", ns, n, hv, "", NoTime), info.addr, NIL)]
    /\ Goto(p, "Lock")
    /\ UNCHANGED <<items, mu, committed, window, fatal, seqvars, repvars>>

CallDelete(p, ns, n) ==
    /\ ~fatal /\ pc[p] = "idle"
    /\ loc' = [loc EXCEPT ![p] = Frame(Call("Delete", ns, n, <<>>, "", NoTime), NIL, NIL)]
    /\ Goto(p, "Lock")
    /\ UNCHANGED <<heap, items, mu, committed, window, fatal, seqvars, repvars>>

CallUpdateCertificate(p, ns, c, t) ==
    /\ ~fatal /\ pc[p] = "idle"
    /\ LET e == NewTime(heap, t)
       IN /\ heap' = e.heap
          /\ loc' = [loc EXCEPT ![p] = Frame(Call("UpdateCertificate", ns, "", <<>>, c, t), NIL, e.addr)]
    /\ Goto(p, "Lock")
    /\ UNCHANGED <<items, mu, committed, window, fatal, seqvars, repvars>>

CallGetAll(p) ==
    /\ ~fatal /\ pc[p] = "idle"
    /\ loc' = [loc EXCEPT ![p] = Frame(Call("GetAll", "", "", <<>>, "", NoTime), NIL, NIL)]
    /\ window' = [window EXCEPT ![p] = {committed}]
    /\ Goto(p, "Lock")
    /\ UNCHANGED <<heap, items, mu, committed, fatal, seqvars, repvars>>

\* Add, line 44
AddLock(p) ==
    /\ ~fatal /\ pc[p] = "Lock" /\ loc[p].call.op = "Add"
    /\ CanLock(mu)
    /\ mu' = [mu EXCEPT !.w = p]
    /\ Goto(p, "Write")
    /\ UNCHANGED <<heap, items, loc, committed, window, fatal, seqvars, repvars>>

\* Add, lines 47-48 and the deferred Unlock
AddWrite(p) ==
    /\ ~fatal /\ pc[p] = "Write" /\ loc[p].call.op = "Add"
    /\ items' = AddBody(items, heap, loc[p].info)
    /\ fatal' \in RaceOutcomes(p)
    /\ Unlock(heap, items')
    /\ Goto(p, "done")
    /\ UNCHANGED <<heap, loc, seqvars, repvars>>

\* Delete, line 53
DeleteLock(p) ==
    /\ ~fatal /\ pc[p] = "Lock" /\ loc[p].call.op = "Delete"
    /\ CanLock(mu)
    /\ mu' = [mu EXCEPT !.w = p]
    /\ Goto(p, "Write")
    /\ UNCHANGED <<heap, items, loc, committed, window, fatal, seqvars, repvars>>

\* Delete, lines 56-57 and the deferred Unlock
DeleteWrite(p) ==
    /\ ~fatal /\ pc[p] = "Write" /\ loc[p].call.op = "Delete"
    /\ items' = DeleteBody(items, loc[p].call.Namespace, loc[p].call.Name)
    /\ fatal' \in RaceOutcomes(p)
    /\ Unlock(heap, items')
    /\ Goto(p, "done")
    /\ UNCHANGED <<heap, loc, seqvars, repvars>>

\* UpdateCertificate: c.mu.Lock() and the start of the range over c.items
UpdateLock(p) ==
    /\ ~fatal /\ pc[p] = "Lock" /\ loc[p].call.op = "UpdateCertificate"
    /\ CanLock(mu)
    /\ mu' = [mu EXCEPT !.w = p]
    /\ loc' = [loc EXCEPT ![p].todo = DOMAIN items]
    /\ Goto(p, "Range")
    /\ UNCHANGED <<heap, items, committed, window, fatal, seqvars, repvars>>

\* UpdateCertificate: the range reaches the entry under k
UpdateRange(p, k) ==
    /\ ~fatal /\ pc[p] = "Range" /\ loc[p].call.op = "UpdateCertificate"
    /\ k \in loc[p].todo
    /\ IF k \in DOMAIN items /\ heap[items[k]].Hosts # <<>>
       THEN /\ loc' = [loc EXCEPT ![p].todo = @ \ {k}, ![p].src = items[k], ![p].i = 1]
            /\ Goto(p, "Host")
       ELSE /\ loc' = [loc EXCEPT ![p].todo = @ \ {k}]
            /\ UNCHANGED pc
    /\ fatal' \in RaceOutcomes(p)
    /\ UNCHANGED <<heap, items, mu, committed, window, seqvars, repvars>>

\* UpdateCertificate: host i of the entry
UpdateCertificateHost(p) ==
    /\ ~fatal /\ pc[p] = "Host" /\ loc[p].call.op = "UpdateCertificate"
    /\ heap' = UpdateHost(heap, loc[p].src, loc[p].i, loc[p].call.Namespace, loc[p].call.Cert, loc[p].e)
    /\ loc' = [loc EXCEPT ![p].i = @ + 1]
    /\ Goto(p, IF loc[p].i + 1 > Len(heap[loc[p].src].Hosts) THEN "Range" ELSE "Host")
    /\ fatal' \in RaceOutcomes(p)
    /\ UNCHANGED <<items, mu, committed, window, seqvars, repvars>>

\* UpdateCertificate: the range is over, the deferred Unlock
UpdateUnlock(p) ==
    /\ ~fatal /\ pc[p] = "Range" /\ loc[p].call.op = "UpdateCertificate"
    /\ loc[p].todo = {}
    /\ Unlock(heap, items)
    /\ Goto(p, "done")
    /\ UNCHANGED <<heap, items, loc, fatal, seqvars, repvars>>

\* GetAll, lines 62-66: RLock, result, the start of the range over c.items
GetAllRLock(p) ==
    /\ ~fatal /\ pc[p] = "Lock" /\ loc[p].call.op = "GetAll"
    /\ CanRLock(mu)
    /\ mu' = [mu EXCEPT !.r = @ \cup {p}]
    /\ loc' = [loc EXCEPT ![p].todo = DOMAIN items, ![p].result = <<>>]
    /\ Goto(p, "Range")
    /\ UNCHANGED <<heap, items, committed, window, fatal, seqvars, repvars>>

\* GetAll, lines 66-72: the range reaches the entry under k, infoCopy is made
GetAllRange(p, k) ==
    /\ ~fatal /\ pc[p] = "Range" /\ loc[p].call.op = "GetAll"
    /\ k \in loc[p].todo
    /\ IF k \in DOMAIN items
       THEN LET c == AllocCopy(heap, items[k])
            IN /\ heap' = c.heap
               /\ IF heap[items[k]].Hosts # <<>>
                  THEN /\ loc' = [loc EXCEPT ![p].todo = @ \ {k}, ![p].src = items[k],
                                             ![p].copy = c.addr, ![p].i = 1]
                       /\ Goto(p, "Host")
                  ELSE /\ loc' = [loc EXCEPT ![p].todo = @ \ {k}, ![p].result = Append(@, c.addr)]
                       /\ UNCHANGED pc
       ELSE /\ loc' = [loc EXCEPT ![p].todo = @ \ {k}]
            /\ UNCHANGED <<heap, pc>>
    /\ fatal' \in RaceOutcomes(p)
    /\ UNCHANGED <<items, mu, committed, window, seqvars, repvars>>

\* GetAll, lines 73-85: host i is copied; after the last one infoCopy is appended
GetAllHost(p) ==
    /\ ~fatal /\ pc[p] = "Host" /\ loc[p].call.op = "GetAll"
    /\ heap' = CopyHost(heap, loc[p].src, loc[p].copy, loc[p].i)
    /\ IF loc[p].i + 1 > Len(heap[loc[p].src].Hosts)
       THEN /\ loc' = [loc EXCEPT ![p].i = @ + 1, ![p].result = Append(@, loc[p].copy)]
            /\ Goto(p, "Range")
       ELSE /\ loc' = [loc EXCEPT ![p].i = @ + 1]
            /\ UNCHANGED pc
    /\ fatal' \in RaceOutcomes(p)
    /\ UNCHANGED <<items, mu, committed, window, seqvars, repvars>>

\* GetAll that returns with the read lock held
GetAllReturnHoldingRLock(p) ==
    /\ ~fatal /\ pc[p] = "Range" /\ loc[p].call.op = "GetAll"
    /\ loc[p].todo = {}
    /\ loc' = [loc EXCEPT ![p].ret = [i \in 1..Len(loc[p].result) |-> InfoAt(heap, loc[p].result[i])]]
    /\ Goto(p, "done")
    /\ UNCHANGED <<heap, items, mu, committed, window, fatal, seqvars, repvars>>

\* GetAll, line 87 and the deferred RUnlock
GetAllRUnlock(p) ==
    /\ ~fatal /\ pc[p] = "Range" /\ loc[p].call.op = "GetAll"
    /\ loc[p].todo = {}
    /\ mu' = [mu EXCEPT !.r = @ \ {p}]
    /\ loc' = [loc EXCEPT ![p].ret = [i \in 1..Len(loc[p].result) |-> InfoAt(heap, loc[p].result[i])]]
    /\ Goto(p, "done")
    /\ UNCHANGED <<heap, items, committed, window, fatal, seqvars, repvars>>

NextConc ==
    \/ \E p \in Procs, ns \in ConcNamespaces, n \in ConcNames, hv \in HostLists : CallAdd(p, ns, n, hv)
    \/ \E p \in Procs, ns \in ConcNamespaces, n \in ConcNames : CallDelete(p, ns, n)
    \/ \E p \in Procs, ns \in ConcNamespaces, c \in CertNames, t \in {NoTime} \cup Times :
            CallUpdateCertificate(p, ns, c, t)
    \/ \E p \in Procs : CallGetAll(p)
    \/ \E p \in Procs : AddLock(p)
    \/ \E p \in Procs : AddWrite(p)
    \/ \E p \in Procs : DeleteLock(p)
    \/ \E p \in Procs : DeleteWrite(p)
    \/ \E p \in Procs : UpdateLock(p)
    \/ \E p \in Procs : \E k \in loc[p].todo : UpdateRange(p, k)
    \/ \E p \in Procs : UpdateCertificateHost(p)
    \/ \E p \in Procs : UpdateUnlock(p)
    \/ \E p \in Procs : GetAllRLock(p)
    \/ \E p \in Procs : \E k \in loc[p].todo : GetAllRange(p, k)
    \/ \E p \in Procs : GetAllHost(p)
    \/ \E p \in Procs : GetAllRUnlock(p)

SpecConc == Init /\ [][NextConc]_vars

(***************************************************************************)
(* The goroutines that use the cache, with what they do outside it: the    *)
(* ingress reconciler and the secret reconciler read from the API server   *)
(* and parse before they call the cache, the reporter marshals, sends and  *)
(* sleeps after GetAll has returned.  There is one worker for each         *)
(* controller and one reporter; a further goroutine is a further worker.   *)
(***************************************************************************)
Role(p) ==
    CASE p % 3 = 1 -> "ingress"
      [] p % 3 = 2 -> "reporter"
      [] OTHER -> "secret"

\* the hosts a reconciliation has built from the Ingress and its Secrets
LockHostLists == {<<HostValue("h1", CertValue("cB", NoTime))>>, <<HostValue("h1", CertValue("cB", 1))>>}

\* IngressReconciler.Reconcile, line 37: r.Get of the Ingress is under way
ReconcileGet(p, ns, n) ==
    /\ ~fatal /\ pc[p] = "idle" /\ Role(p) = "ingress"
    /\ loc' = [loc EXCEPT ![p] = Frame(Call("Reconcile", ns, n, <<>>, "", NoTime), NIL, NIL)]
    /\ Goto(p, "Get")
    /\ UNCHANGED <<heap, items, mu, committed, window, fatal, seqvars, repvars>>

\* updateCache, line 100: r.Get of a Secret is under way
ReconcileGetSecret(p) ==
    /\ ~fatal /\ pc[p] = "Get" /\ loc[p].call.op = "Reconcile"
    /\ Goto(p, "GetSecret")
    /\ UNCHANGED <<heap, items, mu, loc, committed, window, fatal, seqvars, repvars>>

\* updateCache, line 112: extractCertificateExpiry is under way
ReconcileParse(p) ==
    /\ ~fatal /\ pc[p] = "GetSecret" /\ loc[p].call.op = "Reconcile"
    /\ Goto(p, "Parse")
    /\ UNCHANGED <<heap, items, mu, loc, committed, window, fatal, seqvars, repvars>>

\* updateCache, lines 129-158: info is built and r.Cache.Add(info) is called
ReconcileAdd(p, hv) ==
    /\ ~fatal /\ pc[p] = "Parse" /\ loc[p].call.op = "Reconcile"
    /\ LET info == NewIngressInfo(heap, loc[p].call.Namespace, loc[p].call.Name, hv)
       IN /\ heap' = info.heap
          /\ loc' = [loc EXCEPT ![p] =
                        Frame(Call("Add", loc[p].call.Namespace, loc[p].call.Name, hv, "", NoTime),
                              info.addr, NIL)]
    /\ Goto(p, "Lock")
    /\ UNCHANGED <<items, mu, committed, window, fatal, seqvars, repvars>>

\* SecretReconciler.Reconcile, line 35: r.Get of the Secret is under way
SecretGet(p, ns, c) ==
    /\ ~fatal /\ pc[p] = "idle" /\ Role(p) = "secret"
    /\ loc' = [loc EXCEPT ![p] = Frame(Call("ReconcileSecret", ns, "", <<>>, c, NoTime), NIL, NIL)]
    /\ Goto(p, "Get")
    /\ UNCHANGED <<heap, items, mu, committed, window, fatal, seqvars, repvars>>

\* SecretReconciler.Reconcile, line 53: extractCertificateExpiry is under way
SecretParse(p) ==
    /\ ~fatal /\ pc[p] = "Get" /\ loc[p].call.op = "ReconcileSecret"
    /\ Goto(p, "Parse")
    /\ UNCHANGED <<heap, items, mu, loc, committed, window, fatal, seqvars, repvars>>

\* SecretReconciler.Reconcile, line 61: r.Cache.UpdateCertificate is called
SecretUpdate(p, t) ==
    /\ ~fatal /\ pc[p] = "Parse" /\ loc[p].call.op = "ReconcileSecret"
    /\ LET e == NewTime(heap, t)
       IN /\ heap' = e.heap
          /\ loc' = [loc EXCEPT ![p] =
                        Frame(Call("UpdateCertificate", loc[p].call.Namespace, "", <<>>,
                                   loc[p].call.Cert, t), NIL, e.addr)]
    /\ Goto(p, "Lock")
    /\ UNCHANGED <<items, mu, committed, window, fatal, seqvars, repvars>>

\* sendReport, line 161: r.cache.GetAll() is called
ReportGetAll(p) ==
    /\ Role(p) = "reporter"
    /\ CallGetAll(p)

\* sendReport, line 169: json.Marshal of what GetAll returned is under way
ReportMarshal(p) ==
    /\ ~fatal /\ pc[p] = "done" /\ loc[p].call.op = "GetAll" /\ Role(p) = "reporter"
    /\ Goto(p, "Marshal")
    /\ UNCHANGED <<heap, items, mu, loc, committed, window, fatal, seqvars, repvars>>

\* sendReport, line 190: r.client.Do is under way, for the first time or
\* after a backoff
ReportDo(p) ==
    /\ ~fatal /\ pc[p] \in {"Marshal", "Sleep"}
    /\ Goto(p, "Do")
    /\ UNCHANGED <<heap, items, mu, loc, committed, window, fatal, seqvars, repvars>>

\* sendReport, lines 199 and 220: time.Sleep is under way
ReportSleep(p) ==
    /\ ~fatal /\ pc[p] = "Do"
    /\ Goto(p, "Sleep")
    /\ UNCHANGED <<heap, items, mu, loc, committed, window, fatal, seqvars, repvars>>

\* sendReport returns
ReportReturn(p) ==
    /\ ~fatal /\ pc[p] = "Do"
    /\ Goto(p, "returned")
    /\ UNCHANGED <<heap, items, mu, loc, committed, window, fatal, seqvars, repvars>>

NextLock ==
    \/ \E p \in Procs, ns \in ConcNamespaces, n \in ConcNames : ReconcileGet(p, ns, n)
    \/ \E p \in Procs : ReconcileGetSecret(p)
    \/ \E p \in Procs : ReconcileParse(p)
    \/ \E p \in Procs, hv \in LockHostLists : ReconcileAdd(p, hv)
    \/ \E p \in Procs : AddLock(p)
    \/ \E p \in Procs : AddWrite(p)
    \/ \E p \in Procs, ns \in ConcNamespaces, c \in {"cB"} : SecretGet(p, ns, c)
    \/ \E p \in Procs : SecretParse(p)
    \/ \E p \in Procs, t \in Times : SecretUpdate(p, t)
    \/ \E p \in Procs : UpdateLock(p)
    \/ \E p \in Procs : \E k \in loc[p].todo : UpdateRange(p, k)
    \/ \E p \in Procs : UpdateCertificateHost(p)
    \/ \E p \in Procs : UpdateUnlock(p)
    \/ \E p \in Procs : ReportGetAll(p)
    \/ \E p \in Procs : GetAllRLock(p)
    \/ \E p \in Procs : \E k \in loc[p].todo : GetAllRange(p, k)
    \/ \E p \in Procs : GetAllHost(p)
    \/ \E p \in Procs : GetAllRUnlock(p)
    \/ \E p \in Procs : ReportMarshal(p)
    \/ \E p \in Procs : ReportDo(p)
    \/ \E p \in Procs : ReportSleep(p)
    \/ \E p \in Procs : ReportReturn(p)

SpecLock == Init /\ [][NextLock]_vars

(***************************************************************************)
(* What a caller can observe                                               *)
(***************************************************************************)
\* the entries GetAll returns when it ranges over the map in the order keys
SnapshotValues(h, it, keys) ==
    LET r == GetAllBody(h, it, keys)
    IN [i \in 1..Len(r.result) |-> InfoAt(r.heap, r.result[i])]

\* every result a GetAll called now may return
Snapshots == {SnapshotValues(heap, items, keys) : keys \in RangeOrders(DOMAIN items)}

\* the positions of a result that hold an entry of (ns, n)
EntriesOf(s, ns, n) == {i \in 1..Len(s) : s[i].Namespace = ns /\ s[i].Name = n}

\* the entries of a store value that are of (ns, n)
KeysOf(sv, ns, n) == {k \in DOMAIN sv : sv[k].Namespace = ns /\ sv[k].Name = n}

\* a binding that UpdateCertificate(ns, c, _) is to write to
Matches(entry, b, ns, c) ==
    entry.Namespace = ns /\ b.Certificate.present /\ b.Certificate.Name = c

MatchedIn(sv, ns, c) ==
    UNION {{<<k, i>> : i \in {j \in 1..Len(sv[k].Hosts) : Matches(sv[k], sv[k].Hosts[j], ns, c)}} :
            k \in DOMAIN sv}

Now == StoreValue(heap, items)

(***************************************************************************)
(* The cache's contract, one caller at a time                              *)
(***************************************************************************)
\* C1: after Add(e) a snapshot holds exactly one entry of e's (namespace,
\* name), and that entry has e's hosts and certificates, whatever was stored
\* under the key before.
C1_UpsertThenSnapshot ==
    last.op = "Add" =>
        \A s \in Snapshots :
            /\ Cardinality(EntriesOf(s, last.Namespace, last.Name)) = 1
            /\ \A i \in EntriesOf(s, last.Namespace, last.Name) : s[i].Hosts = last.Hosts

\* an Add has replaced an entry with other hosts
C1_Witness ==
    /\ last.op = "Add"
    /\ \E k \in KeysOf(before, last.Namespace, last.Name) : before[k].Hosts # last.Hosts

\* C2: after Delete(namespace, name) a snapshot holds no entry of that key,
\* in particular when an Add had put one there.
C2_UpsertDeleteSnapshot ==
    last.op = "Delete" =>
        \A s \in Snapshots : EntriesOf(s, last.Namespace, last.Name) = {}

\* a Delete has removed an entry that an Add had stored
C2_Witness ==
    /\ last.op = "Delete"
    /\ KeysOf(before, last.Namespace, last.Name) # {}

\* C5: UpdateCertificate(ns, c, t) with a time t sets the expiry of every
\* binding of namespace ns whose certificate is named c to t, and leaves
\* every other binding as it was.
C5_UpdateSetsMatching ==
    (last.op = "UpdateCertificate" /\ last.Expires # NoTime) =>
        /\ DOMAIN Now = DOMAIN before
        /\ \A k \in DOMAIN before :
            /\ Len(Now[k].Hosts) = Len(before[k].Hosts)
            /\ \A i \in 1..Len(before[k].Hosts) :
                IF Matches(before[k], before[k].Hosts[i], last.Namespace, last.Cert)
                THEN Now[k].Hosts[i].Certificate.Expires = last.Expires
                ELSE Now[k].Hosts[i] = before[k].Hosts[i]

\* an update has written two hosts of one entry and passed over the same
\* certificate name in another namespace
C5_Witness ==
    /\ last.op = "UpdateCertificate" /\ last.Expires # NoTime
    /\ \E k \in DOMAIN before :
        /\ <<k, 1>> \in MatchedIn(before, last.Namespace, last.Cert)
        /\ <<k, 2>> \in MatchedIn(before, last.Namespace, last.Cert)
        /\ Now[k].Hosts[1].Certificate.Expires = last.Expires
        /\ Now[k].Hosts[2].Certificate.Expires = last.Expires
    /\ \E k \in DOMAIN before :
        /\ before[k].Namespace # last.Namespace
        /\ before[k].Hosts[1].Certificate = CertValue(last.Cert, NoTime)

\* C6: UpdateCertificate(ns, c, nil) leaves every matching binding with its
\* host, its certificate and the certificate's name, and with no expiry.
C6_UpdateNilClears ==
    (last.op = "UpdateCertificate" /\ last.Expires = NoTime) =>
        /\ DOMAIN Now = DOMAIN before
        /\ \A k \in DOMAIN before :
            /\ Len(Now[k].Hosts) = Len(before[k].Hosts)
            /\ \A i \in 1..Len(before[k].Hosts) :
                Matches(before[k], before[k].Hosts[i], last.Namespace, last.Cert) =>
                    Now[k].Hosts[i] = HostValue(before[k].Hosts[i].Host, CertValue(last.Cert, NoTime))

\* an update with nil has cleared an expiry that was known
C6_Witness ==
    /\ last.op = "UpdateCertificate" /\ last.Expires = NoTime
    /\ \E p \in MatchedIn(before, last.Namespace, last.Cert) :
        /\ before[p[1]].Hosts[p[2]].Certificate.Expires # NoTime
        /\ Now[p[1]].Hosts[p[2]].Certificate.Expires = NoTime

\* C7: UpdateCertificate changes no key, no entry's namespace, name or
\* hosts and no certificate's name; when nothing matches, the cache holds
\* what it held before.
C7_UpdateFrame ==
    last.op = "UpdateCertificate" =>
        /\ DOMAIN Now = DOMAIN before
        /\ \A k \in DOMAIN before :
            /\ Now[k].Namespace = before[k].Namespace
            /\ Now[k].Name = before[k].Name
            /\ Len(Now[k].Hosts) = Len(before[k].Hosts)
            /\ \A i \in 1..Len(before[k].Hosts) :
                /\ Now[k].Hosts[i].Host = before[k].Hosts[i].Host
                /\ Now[k].Hosts[i].Certificate.present = before[k].Hosts[i].Certificate.present
                /\ Now[k].Hosts[i].Certificate.Name = before[k].Hosts[i].Certificate.Name
        /\ (MatchedIn(before, last.Namespace, last.Cert) = {} => Now = before)

\* an update for a certificate name that no binding of the namespace has,
\* while the namespace has a binding with another certificate
C7_Witness ==
    /\ last.op = "UpdateCertificate" /\ last.Expires # NoTime
    /\ MatchedIn(before, last.Namespace, last.Cert) = {}
    /\ \E k \in DOMAIN before :
        /\ before[k].Namespace = last.Namespace
        /\ before[k].Hosts[1].Certificate.present

\* C8: Delete(namespace, name) leaves every entry of another key as it was,
\* adds none, and changes nothing when the key is absent.
C8_DeleteFrame ==
    last.op = "Delete" =>
        /\ DOMAIN Now \subseteq DOMAIN before
        /\ \A k \in DOMAIN before \ KeysOf(before, last.Namespace, last.Name) :
            k \in DOMAIN Now /\ Now[k] = before[k]
        /\ (KeysOf(before, last.Namespace, last.Name) = {} => Now = before)

\* a Delete has removed one of two entries
C8_Witness ==
    /\ last.op = "Delete"
    /\ Cardinality(DOMAIN before) = 2
    /\ Cardinality(DOMAIN Now) = 1

\* C9: a snapshot never holds two entries of one (namespace, name), and a
\* call leaves in the cache every entry whose (namespace, name) is not the
\* one it was called with.
C9_KeyUniqueness ==
    /\ \A s \in Snapshots : \A i, j \in 1..Len(s) :
        (s[i].Namespace = s[j].Namespace /\ s[i].Name = s[j].Name) => i = j
    /\ \A k \in DOMAIN before \ KeysOf(before, last.Namespace, last.Name) :
        \E s \in Snapshots :
            Cardinality(EntriesOf(s, before[k].Namespace, before[k].Name)) = 1
    /\ last.op = "Add" =>
        \A k \in DOMAIN before \ KeysOf(before, last.Namespace, last.Name) :
            \A s \in Snapshots : \E i \in 1..Len(s) : s[i] = before[k]

\* the cache holds entries of the same name in two namespaces, the second
\* just added
C9_Witness ==
    /\ last.op = "Add"
    /\ \E k \in DOMAIN before :
        before[k].Name = last.Name /\ before[k].Namespace # last.Namespace
    /\ Cardinality(DOMAIN items) = 2

(***************************************************************************)
(* The caller of GetAll keeps the result and assigns to it.                *)
(***************************************************************************)
Mutations == {"SetNamespaceName", "SetHost", "SetHosts", "SetCertificate",
              "SetCertificateName", "SetExpires", "WriteExpires"}

\* C4: deep-copy isolation.  After the caller has mutated any part of a
\* GetAll result (entry fields, the host slice, a certificate's name or its
\* expiry) the cache holds what it held before, so a later GetAll returns
\* what it would have returned.
C4_DeepCopyIsolation ==
    last.op \in Mutations => Now = before

\* the mutation that reaches the cache: a write through the Expires pointer
\* of a copied certificate changed the expiry the cache holds
C4_Witness ==
    /\ last.op = "WriteExpires"
    /\ Now # before
    /\ DOMAIN Now = DOMAIN before

\* What does hold: every mutation other than the write through the Expires
\* pointer leaves the cache as it was.
MutationsButWriteExpiresIsolated ==
    last.op \in Mutations \ {"WriteExpires"} => Now = before

(***************************************************************************)
(* Concurrent callers.                                                     *)
(***************************************************************************)
Done == \A p \in Procs : pc[p] = "done"
Adders == {p \in Procs : loc[p].call.op = "Add"}
Getters == {p \in Procs : loc[p].call.op = "GetAll"}
Argument(p) == [Namespace |-> loc[p].call.Namespace, Name |-> loc[p].call.Name, Hosts |-> loc[p].call.Hosts]
ConcKeys == {makeKey(clusterName, ns, n) : ns \in ConcNamespaces, n \in ConcNames}
Range(f) == {f[x] : x \in DOMAIN f}

\* C3: goroutines that Add entries of one (namespace, name) while others
\* call GetAll never stop the program, and once all calls have returned
\* the cache holds exactly one entry of that key, field for field the
\* argument of one of the Add calls.
C3_ConcurrentUpsertOneEntry ==
    (\A p \in Procs : loc[p].call.op \in {"none", "Add", "GetAll"}) =>
        /\ ~fatal
        /\ (Done /\ Adders # {}) =>
              /\ DOMAIN items = ConcKeys
              /\ \A s \in Snapshots :
                    /\ Len(s) = 1
                    /\ \E p \in Adders : s[1] = Argument(p)

C3_Witness ==
    /\ Done
    /\ Getters # {}
    /\ \E p, q \in Adders : Argument(p) # Argument(q)
    /\ \A p \in Getters : Len(loc[p].ret) = 1

\* C10: what a GetAll that ran next to Add, Delete and UpdateCertificate
\* calls returned is what the cache held when it was called or after one
\* of the writes that completed during the call (never an entry a writer
\* was halfway through), and writes after its return do not change it.
C10_SnapshotConsistent ==
    \A p \in Getters : pc[p] = "done" =>
        /\ \E sv \in window[p] :
              /\ Len(loc[p].ret) = Cardinality(DOMAIN sv)
              /\ Range(loc[p].ret) = Range(sv)
        /\ \A i \in 1..Len(loc[p].result) : InfoAt(heap, loc[p].result[i]) = loc[p].ret[i]

\* a GetAll that overlapped a write, returned an entry, and was followed by
\* a write that changed this entry in the cache
C10_Witness ==
    \E p \in Getters :
        /\ pc[p] = "done"
        /\ Cardinality(window[p]) > 1
        /\ Len(loc[p].ret) = 1
        /\ committed \notin window[p]
        /\ DOMAIN committed = ConcKeys
        /\ \E q \in Procs : loc[q].call.op = "UpdateCertificate" /\ pc[q] = "done"

(***************************************************************************)
(* internal/controller/ingress_controller.go                               *)
(*                                                                         *)
(* The reconciler reads the Ingress and its Secrets from the API server    *)
(* and writes the cache.  What the API server answers is an input of each  *)
(* reconciliation.                                                         *)
(***************************************************************************)
\* networkingv1.IngressTLS and the part of networkingv1.Ingress that
\* updateCache reads: the Host of each rule, and the TLS section
IngressTLS(hs, s) == [Hosts |-> hs, SecretName |-> s]
Ingress(rules, tls) == [Rules |-> rules, TLS |-> tls]

Ingresses ==
    {Ingress(<<>>, <<>>),
     Ingress(<<"">>, <<IngressTLS(<<"">>, "cA")>>),
     Ingress(<<"h1">>, <<>>),
     Ingress(<<"h1">>, <<IngressTLS(<<"h1">>, "")>>),
     Ingress(<<>>, <<IngressTLS(<<"h1">>, "cA")>>),
     Ingress(<<"h1", "h2">>, <<IngressTLS(<<"h1", "h2">>, "cA")>>),
     Ingress(<<"h1">>, <<IngressTLS(<<"h2">>, "cA")>>),
     Ingress(<<"h1", "h2">>, <<IngressTLS(<<"h1">>, "cA"), IngressTLS(<<"h2">>, "cB")>>),
     Ingress(<<"h1">>, <<IngressTLS(<<"h1">>, "cA"), IngressTLS(<<"h1">>, "cB")>>),
     Ingress(<<"h1", "h1">>, <<IngressTLS(<<"h2">>, "cB")>>)}

\* what r.Get answers for a Secret: an error, or a Secret whose tls.crt is
\* absent, is no PEM block, is no certificate, or is a certificate
Unavailable == [kind |-> "error", NotAfter |-> NoTime]
Secret(k, t) == [kind |-> k, NotAfter |-> t]
SecretAnswers ==
    [cA |-> {Unavailable, Secret("nodata", NoTime), Secret("nopem", NoTime),
             Secret("badcert", NoTime), Secret("cert", 1)},
     cB |-> {Unavailable, Secret("cert", 2)}]

\* what r.Get answers for the Ingress
GetNotFound == [kind |-> "NotFound"]
GetError == [kind |-> "error"]
GetFound(ing) == [kind |-> "found", ingress |-> ing]

SeqRange(q) == {q[i] : i \in DOMAIN q}

\* lines 66-71
RuleHosts(ing) == SeqRange(ing.Rules) \ {""}

\* lines 75-81
TLSHosts(ing) == UNION {SeqRange(ing.TLS[i].Hosts) : i \in DOMAIN ing.TLS} \ {""}

\* the hosts of the rules and of the TLS section together
HostsRulesAndTLS(ing) == RuleHosts(ing) \cup TLSHosts(ing)

\* lines 66-82: hosts
Hosts(ing) == IF RuleHosts(ing) = {} THEN TLSHosts(ing) ELSE RuleHosts(ing)

\* lines 96-98: the secrets updateCache asks the API server for
SecretNames(ing) == {ing.TLS[i].SecretName : i \in DOMAIN ing.TLS} \ {""}

\* the answers one reconciliation may get
Lookups(ing) == {look \in [SecretNames(ing) -> UNION {SecretAnswers[c] : c \in CertNames}] :
                    \A c \in SecretNames(ing) : look[c] \in SecretAnswers[c]}

\* every host of the TLS section mapped to the secret of its last entry
HostToCertLastSecret(tls, i) ==
    [h \in UNION {SeqRange(tls[k].Hosts) : k \in {k \in 1..i : tls[k].SecretName # ""}} |->
        tls[i].SecretName]

\* lines 85-92: hostToCert, a later TLS entry overwrites an earlier one
RECURSIVE HostToCert(_, _)
HostToCert(tls, i) ==
    IF i = 0 THEN <<>>
    ELSE LET m == HostToCert(tls, i - 1)
             covered == IF tls[i].SecretName # "" THEN SeqRange(tls[i].Hosts) ELSE {}
         IN [h \in DOMAIN m \cup covered |-> IF h \in covered THEN tls[i].SecretName ELSE m[h]]

\* a parse that returns no time and no error for a certificate
extractCertificateExpiryNoTime(h, secret) ==
    [heap |-> h, addr |-> NIL,
     err |-> IF secret.kind = "nodata" THEN "secret does not contain tls.crt"
             ELSE IF secret.kind = "nopem" THEN "failed to decode PEM block"
             ELSE IF secret.kind = "badcert" THEN "failed to parse certificate"
             ELSE ""]

\* extractCertificateExpiry: (expiryTime, err) as (heap, address, err)
extractCertificateExpiry(h, secret) ==
    IF secret.kind = "nodata" THEN [heap |-> h, addr |-> NIL, err |-> "secret does not contain tls.crt"]
    ELSE IF secret.kind = "nopem" THEN [heap |-> h, addr |-> NIL, err |-> "failed to decode PEM block"]
    ELSE IF secret.kind = "badcert" THEN [heap |-> h, addr |-> NIL, err |-> "failed to parse certificate"]
    ELSE LET t == NewTime(h, secret.NotAfter) IN [heap |-> t.heap, addr |-> t.addr, err |-> ""]

\* a lookup or parse failure leaves the secret out of certExpiry
FetchDropOnError(h, m, name, look) ==
    IF look[name].kind # "cert" THEN [heap |-> h, certExpiry |-> m]
    ELSE LET e == extractCertificateExpiry(h, look[name])
         IN [heap |-> Append(e.heap, CertificateInfo(name, e.addr)),
             certExpiry |-> MapPut(m, name, Len(e.heap) + 1)]

\* lines 99-123 for one secret name: (heap, certExpiry)
Fetch(h, m, name, look) ==
    IF look[name].kind = "error"
    THEN [heap |-> Append(h, CertificateInfo(name, NIL)),
          certExpiry |-> MapPut(m, name, Len(h) + 1)]
    ELSE LET e == extractCertificateExpiry(h, look[name])
         IN [heap |-> Append(e.heap, CertificateInfo(name, e.addr)),
             certExpiry |-> MapPut(m, name, Len(e.heap) + 1)]

\* lines 95-126: certExpiry, one *CertificateInfo per secret name
RECURSIVE CertExpiry(_, _, _, _)
CertExpiry(h, tls, look, i) ==
    IF i = 0 THEN [heap |-> h, certExpiry |-> <<>>]
    ELSE LET r == CertExpiry(h, tls, look, i - 1)
         IN IF tls[i].SecretName # "" /\ tls[i].SecretName \notin DOMAIN r.certExpiry
            THEN Fetch(r.heap, r.certExpiry, tls[i].SecretName, look)
            ELSE r

\* info.Hosts without the entry for "no hosts"
BuildHostsNoPlaceholder(order, hostToCert, certExpiry) ==
    [i \in 1..Len(order) |->
        HostInfo(order[i],
                 IF order[i] \in DOMAIN hostToCert /\ hostToCert[order[i]] \in DOMAIN certExpiry
                 THEN certExpiry[hostToCert[order[i]]] ELSE NIL)]

\* lines 136-156: info.Hosts, the hosts in the order the range yields them
BuildHosts(order, hostToCert, certExpiry) ==
    IF order = <<>> THEN <<HostInfo("", NIL)>>
    ELSE [i \in 1..Len(order) |->
            HostInfo(order[i],
                     IF order[i] \in DOMAIN hostToCert /\ hostToCert[order[i]] \in DOMAIN certExpiry
                     THEN certExpiry[hostToCert[order[i]]] ELSE NIL)]

\* updateCache up to line 156: (heap, address of info)
BuildInfo(h, ns, n, ing, look, order) ==
    LET c == CertExpiry(h, ing.TLS, look, Len(ing.TLS))
        hs == BuildHosts(order, HostToCert(ing.TLS, Len(ing.TLS)), c.certExpiry)
    IN [heap |-> Append(c.heap, IngressInfo(ns, n, hs)), addr |-> Len(c.heap) + 1]

Reconciled(ns, n, get, look, order, err) ==
    [op |-> "Reconcile", Namespace |-> ns, Name |-> n, get |-> get, look |-> look,
     order |-> order, err |-> err]

\* not-found answered without touching the cache
ReconcileNotFoundNoDelete(ns, n) ==
    /\ nops < MaxOps
    /\ before' = StoreValue(heap, items)
    /\ last' = Reconciled(ns, n, GetNotFound, <<>>, <<>>, "")
    /\ nops' = nops + 1
    /\ UNCHANGED <<heap, items, snap, concvars, repvars>>

\* not-found that empties the cache of every Ingress of the namespace
ReconcileNotFoundDeletesNamespace(ns, n) ==
    /\ nops < MaxOps
    /\ items' = [k \in {j \in DOMAIN items : heap[items[j]].Namespace # ns} |-> items[k]]
    /\ before' = StoreValue(heap, items)
    /\ last' = Reconciled(ns, n, GetNotFound, <<>>, <<>>, "")
    /\ nops' = nops + 1
    /\ UNCHANGED <<heap, snap, concvars, repvars>>

\* Reconcile, lines 40-45: the Ingress is gone
ReconcileNotFound(ns, n) ==
    /\ nops < MaxOps
    /\ items' = DeleteBody(items, ns, n)
    /\ before' = StoreValue(heap, items)
    /\ last' = Reconciled(ns, n, GetNotFound, <<>>, <<>>, "")
    /\ nops' = nops + 1
    /\ UNCHANGED <<heap, snap, concvars, repvars>>

\* Reconcile, lines 40-48: r.Get fails otherwise
ReconcileGetError(ns, n) ==
    /\ nops < MaxOps
    /\ before' = StoreValue(heap, items)
    /\ last' = Reconciled(ns, n, GetError, <<>>, <<>>, "failed to get ingress")
    /\ nops' = nops + 1
    /\ UNCHANGED <<heap, items, snap, concvars, repvars>>

\* Reconcile, lines 52-58, with updateCache
ReconcileFound(ns, n, ing, look, order) ==
    /\ nops < MaxOps
    /\ LET info == BuildInfo(heap, ns, n, ing, look, order)
       IN /\ heap' = info.heap
          /\ items' = AddBody(items, info.heap, info.addr)
    /\ before' = StoreValue(heap, items)
    /\ last' = Reconciled(ns, n, GetFound(ing), look, order, "")
    /\ nops' = nops + 1
    /\ UNCHANGED <<snap, concvars, repvars>>

\* the requests the controller is handed
ReconcileNamespaces == {"a"}

NextReconcile ==
    \/ \E ns \in ReconcileNamespaces, n \in Names : ReconcileNotFound(ns, n)
    \/ \E ns \in ReconcileNamespaces, n \in Names : ReconcileGetError(ns, n)
    \/ \E ns \in ReconcileNamespaces, n \in Names, ing \in Ingresses :
          \E look \in Lookups(ing), order \in RangeOrders(Hosts(ing)) : ReconcileFound(ns, n, ing, look, order)

SpecReconcile == Init /\ [][NextReconcile]_vars

(***************************************************************************)
(* internal/controller/secret_controller.go                                *)
(*                                                                         *)
(* The secret reconciler reads one Secret from the API server and writes   *)
(* its certificate's expiry to the bindings the cache holds.  The cache is *)
(* filled by Add, as the ingress reconciler fills it.                      *)
(***************************************************************************)
\* corev1.Secret: its Type and its tls.crt
TypedSecret(type, k, t) == [Type |-> type, kind |-> k, NotAfter |-> t]
SecretTypeTLS == "kubernetes.io/tls"
SecretTypeOpaque == "Opaque"

\* what r.Get answers for Secret c: not found, an error, a TLS secret with
\* the contents SecretAnswers lists, or an Opaque secret whose tls.crt holds
\* a certificate
SecretGets(c) ==
    {GetNotFound, GetError}
    \cup {[kind |-> "found", secret |-> TypedSecret(SecretTypeTLS, a.kind, a.NotAfter)] :
            a \in SecretAnswers[c] \ {Unavailable}}
    \cup {[kind |-> "found", secret |-> TypedSecret(SecretTypeOpaque, "cert", 2)]}

\* every secret taken for a TLS secret
IsTLSAlways(secret) == TRUE

\* line 47
IsTLS(secret) == secret.Type = SecretTypeTLS

\* SecretReconciler.extractCertificateExpiry: (expiryTime, err) as (heap, address, err)
SecretExtractCertificateExpiry(h, secret) ==
    IF secret.kind = "nodata" THEN [heap |-> h, addr |-> NIL, err |-> "secret does not contain tls.crt"]
    ELSE IF secret.kind = "nopem" THEN [heap |-> h, addr |-> NIL, err |-> "failed to decode PEM block"]
    ELSE IF secret.kind = "badcert" THEN [heap |-> h, addr |-> NIL, err |-> "failed to parse certificate"]
    ELSE LET t == NewTime(h, secret.NotAfter) IN [heap |-> t.heap, addr |-> t.addr, err |-> ""]

\* what Reconcile was asked, what r.Get answered and the error it returned
SecretReconciled(ns, c, get, err) ==
    [op |-> "ReconcileSecret", Namespace |-> ns, Cert |-> c, get |-> get, err |-> err]

\* a Secret that is gone leaves the cache as it is
SecretNotFoundKeepsExpiry(ns, c) ==
    /\ nops < MaxOps
    /\ before' = StoreValue(heap, items)
    /\ last' = SecretReconciled(ns, c, GetNotFound, "")
    /\ nops' = nops + 1
    /\ UNCHANGED <<heap, items, snap, concvars, repvars>>

\* Reconcile, lines 35-41: the Secret is gone
SecretNotFound(ns, c) ==
    /\ nops < MaxOps
    /\ heap' = UpdateCertificateBody(heap, items, ns, c, NIL)
    /\ before' = StoreValue(heap, items)
    /\ last' = SecretReconciled(ns, c, GetNotFound, "")
    /\ nops' = nops + 1
    /\ UNCHANGED <<items, snap, concvars, repvars>>

\* Reconcile, lines 42-43
SecretGetError(ns, c) ==
    /\ nops < MaxOps
    /\ before' = StoreValue(heap, items)
    /\ last' = SecretReconciled(ns, c, GetError, "failed to get secret")
    /\ nops' = nops + 1
    /\ UNCHANGED <<heap, items, snap, concvars, repvars>>

\* Reconcile, lines 46-65: a secret that is not of type TLS is skipped, one
\* whose certificate does not parse is logged and skipped, and the expiry of
\* one that parses goes to the cache
SecretFound(ns, c, get) ==
    /\ nops < MaxOps
    /\ get.kind = "found"
    /\ LET e == SecretExtractCertificateExpiry(heap, get.secret)
       IN heap' = IF ~IsTLS(get.secret) THEN heap
                  ELSE IF e.err # "" THEN heap
                  ELSE IF e.addr # NIL THEN UpdateCertificateBody(e.heap, items, ns, c, e.addr)
                  ELSE heap
    /\ before' = StoreValue(heap, items)
    /\ last' = SecretReconciled(ns, c, get, "")
    /\ nops' = nops + 1
    /\ UNCHANGED <<items, snap, concvars, repvars>>

NextSecret ==
    \/ \E ns \in Namespaces, n \in Names, hv \in HostLists : Add(ns, n, hv)
    \/ \E ns \in Namespaces, c \in CertNames : SecretNotFound(ns, c)
    \/ \E ns \in Namespaces, c \in CertNames : SecretGetError(ns, c)
    \/ \E ns \in Namespaces, c \in CertNames : \E get \in SecretGets(c) : SecretFound(ns, c, get)

SpecSecret == Init /\ [][NextSecret]_vars

(***************************************************************************)
(* The reporter (package reporter, in internal/config/crd_loader.go).      *)
(*                                                                         *)
(* One goroutine runs Start.  json.Marshal of a Report cannot fail: the    *)
(* times in the cache are NotAfter values of parsed certificates, whose    *)
(* year json accepts, so lines 170-172 are not modelled.                   *)
(***************************************************************************)
maxRetries == 3
MaxTicks == 2
MaxChanges == 1

\* url.Parse, which http.NewRequestWithContext calls, refuses a string with
\* no scheme before its first colon
ParsesAsURL(endpoint) == endpoint # "://collector:8080/report"

\* time.ParseDuration on the strings of Durations: seconds, or -1 for its error
Durations == {"30s", "1m", "0s", "-5s", "invalid"}
ParseError == -1
ParseDuration(str) ==
    CASE str = "30s" -> 30
      [] str = "1m" -> 60
      [] str = "0s" -> 0
      [] str = "-5s" -> -5
      [] OTHER -> ParseError
ParseDurationFails(str) == ParseDuration(str) = ParseError

\* getEnv
getEnv(e, key, defaultValue) == IF e[key] # "" THEN e[key] ELSE defaultValue

\* Load: the error of time.ParseDuration is the only one it returns
LoadError(e) == ParseDurationFails(getEnv(e, "REPORT_INTERVAL", "30s"))

\* Load: the Config it returns
LoadConfig(e) ==
    Config(getEnv(e, "CLUSTER_NAME", "local-cluster"),
           getEnv(e, "REPORT_ENDPOINT", "http://localhost:8080/report"),
           ParseDuration(getEnv(e, "REPORT_INTERVAL", "30s")))

\* ctx.Err()
CtxErrGeneric(done) == IF done THEN "failed to send report" ELSE ""
CtxErr(done) == IF done THEN "context canceled" ELSE ""

\* the error sendReport returns: nil, ctx.Err(), the error of
\* http.NewRequestWithContext wrapped, the *url.Error of client.Do, or the
\* status error of line 224
ReturnedError(c, result, done) ==
    LET lastOutcome == c.outcomes[Len(c.outcomes)]
    IN CASE result = "success" -> ""
         [] result = "cancelled" -> CtxErr(done)
         [] result = "request" -> "failed to create request: parse error"
         [] OTHER -> IF lastOutcome.err # "" THEN "Post: " \o lastOutcome.err
                     ELSE "received non-success status code"

\* what r.client.Do returns: an error, or a response with its status
DoError(e) == [err |-> e, StatusCode |-> 0]
Response(code) == [err |-> "", StatusCode |-> code]
RequestError == [err |-> "failed to create request", StatusCode |-> 0]
Statuses == {101, 200, 299, 300, 500}
DoResults(done) ==
    IF done THEN {DoError("context canceled")}
    ELSE {DoError("connection refused"), DoError("tls handshake")} \cup {Response(c) : c \in Statuses}

\* line 210, with the test widened to 3xx
SuccessUpTo399(resp) == resp.err = "" /\ resp.StatusCode >= 200 /\ resp.StatusCode < 400

\* line 210
Success(resp) == resp.err = "" /\ resp.StatusCode >= 200 /\ resp.StatusCode < 300

\* the same backoff before every retry
BackoffFixed(k) == 2

\* lines 198 and 219, in seconds
Backoff(k) == k * 2

\* a retry after the last attempt too
MoreAttemptsAlways(k) == TRUE

\* lines 196 and 217
MoreAttempts(k) == k < maxRetries

\* failureCount raised by the number of attempts
handleReportErrorPerAttempt(count) == count + maxRetries

\* handleReportError, line 114
handleReportError(count) == count + 1

\* the dynamic types along the Unwrap chain of an error sendReport returns
ErrorChain(err) ==
    CASE err = "context canceled" -> <<"*errors.errorString">>
      [] err = "failed to create request: parse error" ->
            <<"*fmt.wrapError", "*url.Error", "*errors.errorString">>
      [] err = "Post: connection refused" ->
            <<"*url.Error", "*net.OpError", "*os.SyscallError", "syscall.Errno">>
      [] err = "Post: no such host" -> <<"*url.Error", "*net.OpError", "*net.DNSError">>
      [] err = "Post: tls handshake" ->
            <<"*url.Error", "*tls.CertificateVerificationError", "x509.UnknownAuthorityError">>
      [] err = "Post: context canceled" -> <<"*url.Error", "*errors.errorString">>
      [] OTHER -> <<"*errors.errorString">>

\* the types with Error, Timeout and Temporary, which errors.As takes for a
\* net.Error
ImplementsNetError(type) ==
    type \in {"*url.Error", "*net.OpError", "*net.DNSError", "syscall.Errno"}

\* isServerUnavailable, lines 139-156, on the chain of an error
RECURSIVE isServerUnavailable(_)
isServerUnavailable(chain) ==
    IF \E i \in DOMAIN chain : ImplementsNetError(chain[i]) THEN TRUE
    ELSE IF \E i \in DOMAIN chain : chain[i] = "*net.DNSError" THEN TRUE
    ELSE IF \E i \in DOMAIN chain : chain[i] = "*url.Error"
    THEN LET i == CHOOSE k \in DOMAIN chain :
                    chain[k] = "*url.Error" /\ \A j \in 1..(k - 1) : chain[j] # "*url.Error"
         IN isServerUnavailable(SubSeq(chain, i + 1, Len(chain)))
    ELSE FALSE

\* handleReportError, lines 117-135: what it logs, count being failureCount
\* after line 114
handleReportErrorLog(err, isInitial, count) ==
    IF isServerUnavailable(ErrorChain(err))
    THEN IF isInitial \/ count = 1
         THEN LogRecord("info", "waiting for report server to be available", err, isInitial)
         ELSE IF count % 5 = 0
         THEN LogRecord("v1", "report server still unavailable", err, isInitial)
         ELSE LogRecord("v2", "report server not reachable, will retry", err, isInitial)
    ELSE IF isInitial THEN LogRecord("error", "failed to send initial report", err, isInitial)
    ELSE LogRecord("error", "failed to send periodic report", err, isInitial)

\* line 211
LogSent(isInitial) == LogRecord("info", "report sent successfully", "", isInitial)

\* failureCount left as it is by a report that was sent
AfterSuccessNoReset(count) == count

\* line 212
AfterSuccess(count) == 0

\* json.Marshal(Report{Cluster, Ingresses}), line 163-169
Marshal(cluster, h, result) ==
    Report(cluster, [i \in 1..Len(result) |-> InfoAt(h, result[i])])

\* sendReport has returned: Start goes on to line 96 after the initial
\* report, and back to the select after a periodic one
Returned(c, result) ==
    /\ cycle' = [c EXCEPT !.result = result, !.err = ReturnedError(c, result, ctxDone)]
    /\ rpc' = IF c.trigger = "startup" THEN "ticker" ELSE "wait"
    /\ failureCount' = IF result = "success" THEN AfterSuccess(failureCount)
                       ELSE handleReportError(failureCount)
    /\ logged' = IF result = "success" THEN LogSent(c.trigger = "startup")
                 ELSE handleReportErrorLog(ReturnedError(c, result, ctxDone),
                                           c.trigger = "startup", handleReportError(failureCount))
    /\ history' = Append(history, result)

\* sendReport, lines 161-176: the snapshot, the report, attempt := 1
BeginCycle(trigger, order) ==
    /\ LET g == GetAllBody(heap, items, order)
       IN /\ heap' = g.heap
          /\ jsonData' = Marshal(cfg.ClusterName, g.heap, g.result)
    /\ attempt' = 1
    /\ rpc' = "check"
    /\ cycle' = Cycle(trigger, nticks, failureCount, StoreValue(heap, items), cycle, ctxDone)
    /\ ncycles' = ncycles + 1

\* config.Load: with its error the process has no Config to make a
\* reporter of
Load(e) ==
    /\ rpc = "load"
    /\ env' = e
    /\ rpc' = IF LoadError(e) THEN "exit" ELSE "new"
    /\ cfg' = IF LoadError(e) THEN cfg ELSE LoadConfig(e)
    /\ UNCHANGED <<heap, items, seqvars, concvars, timer, attempt, failureCount, logged,
                   ctxDone, ticker, jsonData, cycle, history, ncycles, nticks>>

NewHTTPReporter ==
    /\ rpc = "new"
    /\ rpc' = "start"
    /\ UNCHANGED <<heap, items, seqvars, concvars, env, timer, cfg, attempt, failureCount, logged,
                   ctxDone, ticker, jsonData, cycle, history, ncycles, nticks>>

\* Start that creates the ticker first and reports on its ticks only
StartWithoutInitialReport(order) ==
    /\ rpc = "start"
    /\ rpc' = "ticker"
    /\ UNCHANGED <<heap, items, seqvars, concvars, env, timer, cfg, attempt, failureCount, logged, ctxDone, ticker,
                   jsonData, cycle, history, ncycles, nticks>>

\* Start, lines 89-92: the initial report
Start(order) ==
    /\ rpc = "start"
    /\ BeginCycle("startup", order)
    /\ UNCHANGED <<items, seqvars, concvars, env, timer, cfg, failureCount, logged, ctxDone, ticker, history, nticks>>

\* Start, line 96: time.NewTicker panics on an interval that is not positive
NewTicker ==
    /\ rpc = "ticker"
    /\ rpc' = IF cfg.ReportInterval > 0 THEN "wait" ELSE "panic"
    /\ ticker' = IF cfg.ReportInterval > 0 THEN "empty" ELSE "none"
    /\ UNCHANGED <<heap, items, seqvars, concvars, env, timer, cfg, attempt, failureCount, logged, ctxDone,
                   jsonData, cycle, history, ncycles, nticks>>

\* the ticker delivers a tick; ticker.C holds one, further ones are dropped
TickerFires ==
    /\ ticker = "empty"
    /\ nticks < MaxTicks
    /\ ticker' = "tick"
    /\ nticks' = nticks + 1
    /\ UNCHANGED <<heap, items, seqvars, concvars, env, timer, rpc, cfg, attempt, failureCount, logged, ctxDone,
                   jsonData, cycle, history, ncycles>>

\* the context is cancelled
Cancel ==
    /\ rpc \notin {"load", "exit", "new", "stopped", "panic"}
    /\ ~ctxDone
    /\ ctxDone' = TRUE
    /\ UNCHANGED <<heap, items, seqvars, concvars, env, timer, rpc, cfg, attempt, failureCount, logged, ticker,
                   jsonData, cycle, history, ncycles, nticks>>

\* Start, lines 101-103
SelectDone ==
    /\ rpc = "wait"
    /\ ctxDone
    /\ rpc' = "stopped"
    /\ UNCHANGED <<heap, items, seqvars, concvars, env, timer, cfg, attempt, failureCount, logged, ctxDone, ticker,
                   jsonData, cycle, history, ncycles, nticks>>

\* Start that takes a tick whenever there is one and sends its report
\* without waiting for the report before it to have returned
SelectTickConcurrently(order) ==
    /\ rpc \in {"wait", "check", "do", "sleep"}
    /\ ticker = "tick"
    /\ ticker' = "empty"
    /\ BeginCycle("tick", order)
    /\ UNCHANGED <<items, seqvars, concvars, env, timer, cfg, failureCount, logged, ctxDone, history, nticks>>

\* Start, lines 104-105: a periodic report
SelectTick(order) ==
    /\ rpc = "wait"
    /\ ticker = "tick"
    /\ ticker' = "empty"
    /\ BeginCycle("tick", order)
    /\ UNCHANGED <<items, seqvars, concvars, env, timer, cfg, failureCount, logged, ctxDone, history, nticks>>

\* sendReport, lines 178-180
CheckDone ==
    /\ rpc = "check"
    /\ ctxDone
    /\ Returned(cycle, "cancelled")
    /\ UNCHANGED <<heap, items, seqvars, concvars, env, timer, cfg, attempt, ctxDone, ticker, jsonData,
                   ncycles, nticks>>

\* sendReport, lines 184-187: the endpoint is no URL
NewRequestFails ==
    /\ rpc = "check"
    /\ ~ctxDone
    /\ ~ParsesAsURL(cfg.ReportEndpoint)
    /\ Returned([cycle EXCEPT !.outcomes = Append(@, RequestError)], "request")
    /\ UNCHANGED <<heap, items, seqvars, concvars, env, timer, cfg, attempt, ctxDone, ticker, jsonData,
                   ncycles, nticks>>

\* sendReport, lines 184-188
NewRequest ==
    /\ rpc = "check"
    /\ ~ctxDone
    /\ ParsesAsURL(cfg.ReportEndpoint)
    /\ rpc' = "do"
    /\ UNCHANGED <<heap, items, seqvars, concvars, env, timer, cfg, attempt, failureCount, logged, ctxDone, ticker,
                   jsonData, cycle, history, ncycles, nticks>>

\* sendReport, lines 190-224: the request is sent and answered
Do(resp) ==
    /\ rpc = "do"
    /\ LET c == [cycle EXCEPT !.outcomes = Append(@, resp)]
       IN IF Success(resp) THEN Returned(c, "success") /\ UNCHANGED timer
          ELSE IF MoreAttempts(attempt)
          THEN /\ cycle' = [c EXCEPT !.waits = Append(@, Backoff(attempt))]
               /\ rpc' = "sleep"
               /\ timer' = Backoff(attempt)
               /\ UNCHANGED <<failureCount, logged, history>>
          ELSE Returned(c, "exhausted") /\ UNCHANGED timer
    /\ UNCHANGED <<heap, items, seqvars, concvars, env, cfg, attempt, ctxDone, ticker, jsonData,
                   ncycles, nticks>>

\* time.Sleep, lines 199 and 220: a second of the backoff passes, whatever
\* has become of the context
Sleeping ==
    /\ rpc = "sleep"
    /\ timer > 0
    /\ timer' = timer - 1
    /\ cycle' = [cycle EXCEPT !.lateSleep = IF ctxDone THEN @ + 1 ELSE @]
    /\ UNCHANGED <<heap, items, seqvars, concvars, env, rpc, cfg, attempt, failureCount, logged,
                   ctxDone, ticker, jsonData, history, ncycles, nticks>>

\* sendReport that takes the snapshot and marshals it inside the retry loop
WakeAndSnapshot ==
    /\ rpc = "sleep"
    /\ timer = 0
    /\ attempt' = attempt + 1
    /\ rpc' = "check"
    /\ \E order \in RangeOrders(DOMAIN items) :
          LET g == GetAllBody(heap, items, order)
          IN /\ heap' = g.heap
             /\ jsonData' = Marshal(cfg.ClusterName, g.heap, g.result)
    /\ UNCHANGED <<items, seqvars, concvars, env, timer, cfg, failureCount, logged, ctxDone, ticker,
                   cycle, history, ncycles, nticks>>

\* sendReport, lines 199-200 and 220-221: time.Sleep returns, attempt++
Wake ==
    /\ rpc = "sleep"
    /\ timer = 0
    /\ attempt' = attempt + 1
    /\ rpc' = "check"
    /\ UNCHANGED <<heap, items, seqvars, concvars, env, timer, cfg, failureCount, logged, ctxDone, ticker,
                   jsonData, cycle, history, ncycles, nticks>>

\* a reconciliation writes the cache while the reporter runs
ReportHostLists == {<<HostValue("h1", NoCert)>>, <<HostValue("h1", CertValue("cB", 1))>>}

CacheChanges(hv) ==
    /\ nops < MaxChanges
    /\ LET info == NewIngressInfo(heap, "a", "c", hv)
       IN /\ heap' = info.heap
          /\ items' = AddBody(items, info.heap, info.addr)
    /\ nops' = nops + 1
    /\ UNCHANGED <<snap, last, before, concvars, repvars>>

NextReport ==
    \/ \E e \in Environments : Load(e)
    \/ NewHTTPReporter
    \/ \E order \in RangeOrders(DOMAIN items) : Start(order)
    \/ NewTicker
    \/ TickerFires
    \/ Cancel
    \/ SelectDone
    \/ \E order \in RangeOrders(DOMAIN items) : SelectTick(order)
    \/ CheckDone
    \/ NewRequestFails
    \/ NewRequest
    \/ \E resp \in DoResults(ctxDone) : Do(resp)
    \/ Sleeping
    \/ Wake
    \/ \E hv \in ReportHostLists : CacheChanges(hv)

SpecReport == Init /\ [][NextReport]_vars

(***************************************************************************)
(* The reporter's cycles one after the other, each taken as a whole: Start *)
(* calls sendReport, which returns nil or one of its errors, and handles   *)
(* the error.  This is what failureCount and the log depend on.            *)
(***************************************************************************)
MaxRuns == 6

\* the errors sendReport returns
CycleErrors ==
    {"context canceled", "failed to create request: parse error", "Post: connection refused",
     "Post: no such host", "Post: tls handshake", "Post: context canceled",
     "received non-success status code"}

\* Start, lines 92 and 105, with sendReport returning nil at line 213
CycleSent ==
    /\ ncycles < MaxRuns
    /\ ncycles' = ncycles + 1
    /\ failureCount' = AfterSuccess(failureCount)
    /\ logged' = LogSent(ncycles = 0)
    /\ UNCHANGED <<heap, items, seqvars, concvars, env, rpc, cfg, attempt, timer, ctxDone,
                   ticker, jsonData, cycle, history, nticks>>

\* Start, lines 92-94 and 105-107, with sendReport returning err
CycleFailed(err) ==
    /\ ncycles < MaxRuns
    /\ ncycles' = ncycles + 1
    /\ failureCount' = handleReportError(failureCount)
    /\ logged' = handleReportErrorLog(err, ncycles = 0, handleReportError(failureCount))
    /\ UNCHANGED <<heap, items, seqvars, concvars, env, rpc, cfg, attempt, timer, ctxDone,
                   ticker, jsonData, cycle, history, nticks>>

NextLog ==
    \/ CycleSent
    \/ \E err \in CycleErrors : CycleFailed(err)

SpecLog == Init /\ [][NextLog]_vars

\* The reporter goroutine takes its next step when it has one; the context,
\* the ticker and the reconcilers owe nothing.  A select with several cases
\* ready picks one of them at random, so the case that is ready again and
\* again is taken in the end.
ReporterStep ==
    \/ \E e \in Environments : Load(e)
    \/ NewHTTPReporter
    \/ \E order \in RangeOrders(DOMAIN items) : Start(order)
    \/ NewTicker
    \/ CheckDone
    \/ NewRequestFails
    \/ NewRequest
    \/ \E resp \in DoResults(ctxDone) : Do(resp)
    \/ Sleeping
    \/ Wake

SpecReportFair == SpecReport /\ WF_vars(ReporterStep) /\ SF_vars(SelectDone)

(***************************************************************************)
(* What a reconciliation leaves in the cache.                              *)
(***************************************************************************)
Key(ns, n) == makeKey(clusterName, ns, n)
Found == last.op = "Reconcile" /\ last.get.kind = "found"
Written == Now[Key(last.Namespace, last.Name)]
HostnamesOf(e) == {e.Hosts[j].Host : j \in DOMAIN e.Hosts}
NoHostname(ing) ==
    /\ \A i \in DOMAIN ing.Rules : ing.Rules[i] = ""
    /\ \A i \in DOMAIN ing.TLS : \A j \in DOMAIN ing.TLS[i].Hosts : ing.TLS[i].Hosts[j] = ""

\* the TLS entries of the reconciled Ingress whose secret could not be read
\* or parsed
Failing(ing, look) ==
    {i \in DOMAIN ing.TLS : ing.TLS[i].SecretName # "" /\ look[ing.TLS[i].SecretName].kind # "cert"}

\* a later TLS entry with a secret name lists the host too
Overridden(ing, i, host) ==
    \E k \in DOMAIN ing.TLS :
        k > i /\ ing.TLS[k].SecretName # "" /\ host \in SeqRange(ing.TLS[k].Hosts)

\* the expiries the cache held for certificate c in namespace ns
KnownExpiries(sv, ns, c) ==
    {sv[k].Hosts[j].Certificate.Expires :
        <<k, j>> \in {kj \in MatchedIn(sv, ns, c) : sv[kj[1]].Hosts[kj[2]].Certificate.Expires # NoTime}}

\* C11: every entry a reconciliation writes, and every entry the cache
\* holds, has at least one host; when neither the rules nor the TLS section
\* of the Ingress name a non-empty host, the entry written is exactly one
\* host "" without certificate.
C11_AtLeastOneHost ==
    /\ \A k \in DOMAIN Now : Len(Now[k].Hosts) >= 1
    /\ Found =>
          /\ Key(last.Namespace, last.Name) \in DOMAIN Now
          /\ Len(Written.Hosts) >= 1
          /\ NoHostname(last.get.ingress) => Written.Hosts = <<HostValue("", NoCert)>>

C11_Witness ==
    /\ Found
    /\ NoHostname(last.get.ingress)
    /\ last.get.ingress.TLS # <<>>
    /\ Written.Hosts = <<HostValue("", NoCert)>>

\* C12 as stated: when the secret of a TLS entry cannot be read or parsed,
\* the reconciliation returns no error and writes the entry, and every host
\* that TLS entry lists is in the entry with a certificate of that name and
\* no expiry.
C12_FailingBindingKept ==
    Found =>
        /\ last.err = ""
        /\ Key(last.Namespace, last.Name) \in DOMAIN Now
        /\ \A i \in Failing(last.get.ingress, last.look) :
              \A host \in SeqRange(last.get.ingress.TLS[i].Hosts) \ {""} :
                  \E j \in DOMAIN Written.Hosts :
                      /\ Written.Hosts[j].Host = host
                      /\ Written.Hosts[j].Certificate =
                            CertValue(last.get.ingress.TLS[i].SecretName, NoTime)

\* C12 as amended: the same, for the hosts that TLS entry lists which are
\* among the hosts of the entry written and which no later TLS entry with a
\* secret name lists too.
C12_FailingBindingKeptForEntryHosts ==
    Found =>
        /\ last.err = ""
        /\ Key(last.Namespace, last.Name) \in DOMAIN Now
        /\ \A i \in Failing(last.get.ingress, last.look) :
              \A host \in (SeqRange(last.get.ingress.TLS[i].Hosts) \ {""}) \cap HostnamesOf(Written) :
                  ~Overridden(last.get.ingress, i, host) =>
                      \A j \in DOMAIN Written.Hosts :
                          Written.Hosts[j].Host = host =>
                              Written.Hosts[j].Certificate =
                                  CertValue(last.get.ingress.TLS[i].SecretName, NoTime)

\* a secret that is no certificate, and both hosts of its TLS entry written
\* with the certificate's name and no expiry
C12_Witness ==
    /\ Found
    /\ \E i \in Failing(last.get.ingress, last.look) :
          /\ last.look[last.get.ingress.TLS[i].SecretName].kind = "badcert"
          /\ Len(last.get.ingress.TLS[i].Hosts) = 2
          /\ \A j \in DOMAIN Written.Hosts :
                Written.Hosts[j].Certificate = CertValue(last.get.ingress.TLS[i].SecretName, NoTime)
    /\ Len(Written.Hosts) = 2

\* C13: when the secret cannot be read at a reconciliation and the cache
\* held, in the same namespace, a certificate of that name with a known
\* expiry, the entry written carries that expiry.
C13_PreserveOnRebuild ==
    Found =>
        \A j \in DOMAIN Written.Hosts :
            LET c == Written.Hosts[j].Certificate
            IN (/\ c.present
                /\ last.look[c.Name].kind = "error"
                /\ KnownExpiries(before, last.Namespace, c.Name) # {})
               => c.Expires \in KnownExpiries(before, last.Namespace, c.Name)

\* the expiry the cache held for the route's certificate is gone after the
\* route was reconciled while the secret could not be read
C13_Witness ==
    /\ Found
    /\ Key(last.Namespace, last.Name) \in DOMAIN before
    /\ \E j \in DOMAIN Written.Hosts :
          /\ Written.Hosts[j].Certificate.present
          /\ Written.Hosts[j].Certificate.Expires = NoTime
          /\ last.look[Written.Hosts[j].Certificate.Name].kind = "error"
          /\ KnownExpiries(before, last.Namespace, Written.Hosts[j].Certificate.Name) # {}

\* C14: a reconciliation that finds the Ingress gone returns no error and
\* leaves no entry of its key, whether or not there was one; the other
\* entries stay, and when there was none the cache is as it was.
C14_DeletionUnconditional ==
    (last.op = "Reconcile" /\ last.get.kind = "NotFound") =>
        /\ last.err = ""
        /\ DOMAIN Now = DOMAIN before \ {Key(last.Namespace, last.Name)}
        /\ \A k \in DOMAIN Now : Now[k] = before[k]
        /\ Key(last.Namespace, last.Name) \notin DOMAIN before => Now = before

\* the route was written, then found gone, then found gone again
C14_Witness ==
    /\ last.op = "Reconcile" /\ last.get.kind = "NotFound"
    /\ nops = 3
    /\ Key(last.Namespace, last.Name) \notin DOMAIN before
    /\ \E a \in DOMAIN heap :
          /\ heap[a].kind = "IngressInfo"
          /\ heap[a].Namespace = last.Namespace /\ heap[a].Name = last.Name
    /\ Now = before

(***************************************************************************)
(* The report cycles.                                                      *)
(***************************************************************************)
Ended == cycle.result \notin {"none", "running"}
Attempts == Len(cycle.outcomes)
TransportFailure(resp) == resp.err \in {"connection refused", "tls handshake", "context canceled"}
NonSuccessStatus(resp) == resp.err = "" /\ (resp.StatusCode < 200 \/ resp.StatusCode >= 300)
SuccessStatus(resp) == resp.err = "" /\ resp.StatusCode >= 200 /\ resp.StatusCode < 300
DeliveryFailure(resp) == TransportFailure(resp) \/ NonSuccessStatus(resp)

\* the cycles that returned an error since the last one that returned nil
RECURSIVE FailuresSinceSuccess(_)
FailuresSinceSuccess(h) ==
    IF h = <<>> \/ h[Len(h)] = "success" THEN 0
    ELSE 1 + FailuresSinceSuccess(SubSeq(h, 1, Len(h) - 1))

\* C15: a cycle makes at most 3 attempts, and exactly 3 when it has ended
\* without the context being cancelled and each of its attempts ended in a
\* transport error or a status outside [200,300).
C15_AtMostThreeAttempts ==
    /\ Attempts <= 3
    /\ (/\ Ended
        /\ ~ctxDone
        /\ \A i \in 1..Attempts : DeliveryFailure(cycle.outcomes[i]))
       => Attempts = 3

\* three failed attempts, a transport error and a non-success status among them
C15_Witness ==
    /\ Ended
    /\ ~ctxDone
    /\ Attempts = 3
    /\ \A i \in 1..Attempts : DeliveryFailure(cycle.outcomes[i])
    /\ \E i, j \in 1..Attempts :
          TransportFailure(cycle.outcomes[i]) /\ NonSuccessStatus(cycle.outcomes[j])

\* C16: an attempt answered with a status in [200,300) is the last of its
\* cycle, which ends in success with no backoff after it; an attempt
\* answered with another status is a failed one: the cycle does not end in
\* success with it, the first and the second are followed by a backoff and
\* the third ends the cycle exhausted.
C16_SuccessStatusEndsCycle ==
    \A i \in 1..Attempts :
        /\ SuccessStatus(cycle.outcomes[i]) =>
              /\ i = Attempts
              /\ cycle.result = "success"
              /\ Len(cycle.waits) = i - 1
              /\ failureCount = 0
        /\ NonSuccessStatus(cycle.outcomes[i]) =>
              /\ i = Attempts => cycle.result # "success"
              /\ i = 3 => cycle.result = "exhausted"
              /\ i < 3 => Len(cycle.waits) >= i

\* status 300 is retried, status 299 ends the cycle
C16_Witness ==
    /\ cycle.outcomes = <<Response(300), Response(299)>>
    /\ cycle.result = "success"
    /\ cycle.waits = <<2>>
    /\ cycle.count > 0

\* C17: after attempt k has failed (transport error or non-success status)
\* the reporter sleeps k * 2 seconds exactly when k < 3; it does not sleep
\* after the third attempt or after a success.  Two refused connections
\* and then a 200 make two sleeps, of 2 and 4 seconds, and a success that
\* leaves failureCount at 0.
C17_BackoffAfterFailedAttempt ==
    /\ Len(cycle.waits) = Cardinality({k \in 1..Attempts : k < 3 /\ DeliveryFailure(cycle.outcomes[k])})
    /\ \A k \in DOMAIN cycle.waits : cycle.waits[k] = k * 2
    /\ rpc = "sleep" => Attempts < 3 /\ DeliveryFailure(cycle.outcomes[Attempts])
    /\ cycle.outcomes = <<DoError("connection refused"), DoError("connection refused"), Response(200)>>
          => cycle.waits = <<2, 4>> /\ cycle.result = "success" /\ failureCount = 0

C17_Witness ==
    /\ cycle.outcomes = <<DoError("connection refused"), DoError("connection refused"), Response(200)>>
    /\ cycle.waits = <<2, 4>>
    /\ cycle.result = "success"
    /\ cycle.count > 0
    /\ failureCount = 0

\* C18: a cycle whose three attempts all failed returns the error of the
\* last one, and failureCount is then one more than when the cycle began;
\* the cycle after it is started by a tick, begins at attempt 1, and its
\* report is of a snapshot taken when it began.
C18_ExhaustionCountsOnce ==
    /\ (Attempts = 3 /\ \A i \in 1..3 : DeliveryFailure(cycle.outcomes[i])) =>
          /\ cycle.result = "exhausted"
          /\ failureCount = cycle.count + 1
    /\ cycle.result = "exhausted" => Attempts = 3 /\ failureCount = cycle.count + 1
    /\ cycle.prevResult = "exhausted" =>
          /\ cycle.trigger = "tick"
          /\ attempt \in {Attempts, Attempts + 1}
          /\ Attempts = 0 => attempt = 1
          /\ jsonData.Cluster = cfg.ClusterName
          /\ Len(jsonData.Ingresses) = Cardinality(DOMAIN cycle.store)
          /\ Range(jsonData.Ingresses) = Range(cycle.store)

\* after an exhausted cycle the next one begins, with a report that differs
\* from the one that could not be delivered, and once more all attempts fail
C18_Witness ==
    /\ cycle.prevResult = "exhausted"
    /\ cycle.prevStore # cycle.store
    /\ cycle.result = "exhausted"
    /\ failureCount = 2

\* C19: failureCount is the number of cycles that returned an error since
\* the last cycle that returned nil, or since the start: 0 after a
\* success, and it only ever goes down by a success setting it to 0.
C19_CounterInvariant ==
    /\ failureCount = FailuresSinceSuccess(history)
    /\ cycle.result = "success" => failureCount = 0

C19_CounterMonotone ==
    [][failureCount' < failureCount => (cycle'.result = "success" /\ failureCount' = 0)]_vars

C19_ConsecutiveFailureCounter == []C19_CounterInvariant /\ C19_CounterMonotone

\* two failed cycles, then a success
C19_Witness ==
    /\ Len(history) = 3
    /\ history[3] = "success"
    /\ history[1] # "success" /\ history[2] # "success"
    /\ cycle.count = 2
    /\ failureCount = 0

\* C20: Start sends the first report before it creates the ticker, so
\* before any tick; every later cycle is started by a tick of its own.
C20_FirstCycleImmediate ==
    /\ ncycles = 0 => nticks = 0 /\ ticker = "none" /\ rpc \in {"load", "exit", "new", "start"}
    /\ ticker # "none" => ncycles >= 1
    /\ ncycles = 1 => cycle.trigger = "startup" /\ cycle.ticks = 0
    /\ ncycles >= 2 => cycle.trigger = "tick" /\ cycle.ticks >= ncycles - 1
    /\ rpc = "ticker" => nticks = 0

C20_Witness ==
    /\ ncycles = 3
    /\ cycle.trigger = "tick"
    /\ cycle.ticks = 2
    /\ history[1] = "success"

(***************************************************************************)
(* Cancellation.                                                           *)
(***************************************************************************)
LastOutcome == cycle.outcomes[Attempts]

\* sendReport returned although it had attempts left and none had succeeded
\* or failed for good
Aborted ==
    /\ Ended
    /\ Attempts < maxRetries
    /\ Attempts > 0 => DeliveryFailure(LastOutcome)

\* the goroutine that ran Start has ended
Terminated == rpc \in {"stopped", "panic"}

\* C21: when the context is cancelled during a backoff the wait ends at once,
\* no second of it is slept after the cancellation, and the cycle makes no
\* attempt after it.
C21_CancelAbortsBackoff ==
    /\ [](cycle.lateSleep = 0)
    /\ [][ctxDone /\ rpc \in {"sleep", "check"} => rpc' # "do"]_vars

C21_Witness ==
    /\ cycle.result = "cancelled"
    /\ Attempts = 2
    /\ cycle.lateSleep = Backoff(2)

\* C22: a cycle that the cancellation aborted returns ctx.Err(), and no
\* cycle that ended on a transport failure, a status, a request that could
\* not be built or a sent report returns that error.
C22_CancellationSpecific ==
    /\ Aborted => ctxDone /\ cycle.err = "context canceled"
    /\ Ended /\ ~Aborted => cycle.err # "context canceled"

C22_Witness ==
    /\ Aborted
    /\ Attempts = 2
    /\ NonSuccessStatus(LastOutcome)
    /\ cycle.err = "context canceled"

\* C23: once the context is cancelled Start returns in the end, whatever the
\* reporter was doing, and no cycle starts after the cancellation.
C23_CancelStopsReporter ==
    /\ ctxDone ~> Terminated
    /\ [][ctxDone => ncycles' = ncycles]_vars

C23_Witness ==
    /\ cycle.late
    /\ cycle.trigger = "tick"
    /\ cycle.result = "cancelled"
    /\ rpc = "stopped"

\* C24: while the context is not cancelled, a cycle that failed leaves the
\* reporter on its way to the select or in it, where the next tick starts
\* a cycle.
C24_FailureNeverStops ==
    Ended /\ cycle.result # "success" /\ ~ctxDone =>
        /\ rpc \in {"ticker", "wait"}
        /\ rpc = "wait" /\ ticker = "tick" =>
               ENABLED (\E order \in RangeOrders(DOMAIN items) : SelectTick(order))

C24_Witness ==
    /\ cycle.result = "exhausted"
    /\ ~ctxDone
    /\ rpc = "panic"

\* C25: with an interval that is no positive duration or an endpoint that is
\* no URL the load fails and no reporter is made, so neither shows at run
\* time; a setting that is not given is 30s, http://localhost:8080/report,
\* local-cluster.
GivenInterval == IF env.REPORT_INTERVAL = "" THEN "30s" ELSE env.REPORT_INTERVAL
GivenEndpoint ==
    IF env.REPORT_ENDPOINT = "" THEN "http://localhost:8080/report" ELSE env.REPORT_ENDPOINT
GivenCluster == IF env.CLUSTER_NAME = "" THEN "local-cluster" ELSE env.CLUSTER_NAME
ValidConfig == ParseDuration(GivenInterval) > 0 /\ ParsesAsURL(GivenEndpoint)
Loaded == rpc \notin {"load", "exit"}

C25_InvalidConfigRejected ==
    /\ rpc # "load" /\ ~ValidConfig => rpc = "exit"
    /\ rpc # "panic"
    /\ cycle.result # "request"
    /\ Loaded => cfg = Config(GivenCluster, GivenEndpoint, ParseDuration(GivenInterval))

C25_Witness ==
    /\ env.REPORT_ENDPOINT = "://collector:8080/report"
    /\ cycle.result = "request"
    /\ ncycles = 2

(***************************************************************************)
(* The hosts and certificates of a reconciled entry.                       *)
(***************************************************************************)
Reconciling == last.get.ingress
NonEmptyRuleHostnames == {Reconciling.Rules[i] : i \in DOMAIN Reconciling.Rules} \ {""}
NonEmptyTLSHostnames ==
    {Reconciling.TLS[i].Hosts[j] :
        <<i, j>> \in UNION {{i} \X DOMAIN Reconciling.TLS[i].Hosts : i \in DOMAIN Reconciling.TLS}} \ {""}

\* the TLS entries that name a certificate and list the host
Naming(host) ==
    {i \in DOMAIN Reconciling.TLS :
        /\ Reconciling.TLS[i].SecretName # ""
        /\ \E j \in DOMAIN Reconciling.TLS[i].Hosts : Reconciling.TLS[i].Hosts[j] = host}

\* C26: the hostnames of the entry written are the non-empty hosts of the
\* rules when there are any, and otherwise the non-empty hosts of the TLS
\* section; no hostname is in two host bindings; a hostname only the TLS
\* section lists is not in the entry when a rule names a host.
C26_HostSet ==
    Found /\ last.err = "" =>
        /\ HostnamesOf(Written) \ {""} =
              IF NonEmptyRuleHostnames # {} THEN NonEmptyRuleHostnames ELSE NonEmptyTLSHostnames
        /\ \A j, k \in DOMAIN Written.Hosts :
              Written.Hosts[j].Host = Written.Hosts[k].Host => j = k
        /\ NonEmptyRuleHostnames # {} =>
              HostnamesOf(Written) \cap (NonEmptyTLSHostnames \ NonEmptyRuleHostnames) = {}

C26_Witness ==
    /\ Found
    /\ Reconciling.Rules = <<"h1", "h1">>
    /\ NonEmptyTLSHostnames = {"h2"}
    /\ Len(Written.Hosts) = 1
    /\ Written.Hosts[1].Host = "h1"

\* C27: a host binding of the entry written has a certificate exactly when
\* its host is a hostname that some TLS entry with a secret name lists, and
\* the certificate's name is then the secret name of such a TLS entry.
C27_CertificateFromTLS ==
    Found /\ last.err = "" =>
        \A j \in DOMAIN Written.Hosts :
            LET b == Written.Hosts[j]
            IN /\ b.Certificate.present <=> b.Host # "" /\ Naming(b.Host) # {}
               /\ b.Certificate.present =>
                     \E i \in Naming(b.Host) : b.Certificate.Name = Reconciling.TLS[i].SecretName

C27_Witness ==
    /\ Found
    /\ Len(Reconciling.TLS) = 2
    /\ \E j, k \in DOMAIN Written.Hosts :
          /\ Written.Hosts[j].Host = "h1" /\ Written.Hosts[j].Certificate.Name = "cA"
          /\ Written.Hosts[k].Host = "h2" /\ Written.Hosts[k].Certificate.Name = "cB"

\* C28: when the secret a certificate is named after is read and its
\* certificate parses, every host binding of the entry written that has a
\* certificate of that name has the NotAfter of that certificate as expiry.
C28_ExpiryIsNotAfter ==
    Found /\ last.err = "" =>
        \A j \in DOMAIN Written.Hosts :
            LET c == Written.Hosts[j].Certificate
            IN c.present /\ last.look[c.Name].kind = "cert" =>
                  c.Expires = last.look[c.Name].NotAfter /\ c.Expires # NoTime

C28_Witness ==
    /\ Found
    /\ Len(Written.Hosts) = 2
    /\ \A j \in DOMAIN Written.Hosts : Written.Hosts[j].Certificate = CertValue("cA", 1)
    /\ Key(last.Namespace, last.Name) \in DOMAIN before
    /\ \A j \in DOMAIN before[Key(last.Namespace, last.Name)].Hosts :
          before[Key(last.Namespace, last.Name)].Hosts[j].Certificate = CertValue("cA", NoTime)

(***************************************************************************)
(* What a certificate-changed event leaves in the cache.                   *)
(***************************************************************************)
SecretRead == last.op = "ReconcileSecret" /\ last.get.kind = "found"
Parsable == last.get.secret.kind = "cert"
OfTLSKind == last.get.secret.Type = "kubernetes.io/tls"

\* the entries and the host lists the cache holds are the cells they were
InPlace ==
    /\ items' = items
    /\ \A a \in DOMAIN heap : heap[a].kind = "IngressInfo" => heap'[a] = heap[a]

\* C29: after the event of a TLS secret ns/c whose certificate parses, every
\* binding of namespace ns with certificate c has the certificate's NotAfter
\* as expiry and every other binding is as it was; the event of a secret
\* that is not of TLS kind leaves the cache as it was; no event of a secret
\* replaces an entry or its host list.
C29_SecretEventState ==
    /\ SecretRead /\ OfTLSKind /\ Parsable =>
          /\ last.err = ""
          /\ DOMAIN Now = DOMAIN before
          /\ \A k \in DOMAIN before :
                /\ Len(Now[k].Hosts) = Len(before[k].Hosts)
                /\ \A i \in 1..Len(before[k].Hosts) :
                      IF Matches(before[k], before[k].Hosts[i], last.Namespace, last.Cert)
                      THEN Now[k].Hosts[i] =
                              HostValue(before[k].Hosts[i].Host,
                                        CertValue(last.Cert, last.get.secret.NotAfter))
                      ELSE Now[k].Hosts[i] = before[k].Hosts[i]
    /\ SecretRead /\ ~OfTLSKind => last.err = "" /\ Now = before

C29_SecretEventInPlace == [][last'.op = "ReconcileSecret" => InPlace]_vars

C29_SecretEventUpdatesInPlace == []C29_SecretEventState /\ C29_SecretEventInPlace

C29_Witness ==
    /\ SecretRead /\ OfTLSKind /\ Parsable
    /\ \E k \in DOMAIN before :
          /\ <<k, 1>> \in MatchedIn(before, last.Namespace, last.Cert)
          /\ <<k, 2>> \in MatchedIn(before, last.Namespace, last.Cert)
          /\ before[k].Hosts[1].Certificate.Expires = NoTime
          /\ Now[k].Hosts[1].Certificate.Expires = last.get.secret.NotAfter
          /\ Now[k].Hosts[2].Certificate.Expires = last.get.secret.NotAfter
    /\ \E k \in DOMAIN before :
          /\ before[k].Namespace # last.Namespace
          /\ before[k].Hosts[1].Certificate = CertValue(last.Cert, NoTime)
          /\ Now[k] = before[k]

\* C30: after the event of a TLS secret ns/c whose certificate does not
\* parse, the handler has returned no error and no binding of namespace ns
\* with certificate c has an expiry, whatever expiry it had before.
C30_UnparsableLeavesAbsent ==
    SecretRead /\ OfTLSKind /\ ~Parsable =>
        /\ last.err = ""
        /\ \A p \in MatchedIn(Now, last.Namespace, last.Cert) :
              Now[p[1]].Hosts[p[2]].Certificate.Expires = NoTime

C30_Witness ==
    /\ SecretRead /\ OfTLSKind /\ ~Parsable
    /\ last.err = ""
    /\ \E p \in MatchedIn(before, last.Namespace, last.Cert) :
          /\ before[p[1]].Hosts[p[2]].Certificate.Expires # NoTime
          /\ Now[p[1]].Hosts[p[2]].Certificate.Expires = before[p[1]].Hosts[p[2]].Certificate.Expires

SecretGone == last.op = "ReconcileSecret" /\ last.get.kind = "NotFound"

\* C31: after the event of a secret ns/c that is not found, the handler has
\* returned no error, every binding of namespace ns with certificate c has
\* its host and a certificate named c without expiry, and every key, every
\* entry and every other binding is as it was.
C31_DeletedSecretClearsExpiry ==
    SecretGone =>
        /\ last.err = ""
        /\ DOMAIN Now = DOMAIN before
        /\ \A k \in DOMAIN before :
              /\ Now[k].Namespace = before[k].Namespace
              /\ Now[k].Name = before[k].Name
              /\ Len(Now[k].Hosts) = Len(before[k].Hosts)
              /\ \A i \in 1..Len(before[k].Hosts) :
                    IF Matches(before[k], before[k].Hosts[i], last.Namespace, last.Cert)
                    THEN Now[k].Hosts[i] =
                            HostValue(before[k].Hosts[i].Host, CertValue(last.Cert, NoTime))
                    ELSE Now[k].Hosts[i] = before[k].Hosts[i]

C31_Witness ==
    /\ SecretGone
    /\ \E p \in MatchedIn(before, last.Namespace, last.Cert) :
          /\ before[p[1]].Hosts[p[2]].Certificate.Expires # NoTime
          /\ Now[p[1]].Hosts[p[2]].Certificate = CertValue(last.Cert, NoTime)
          /\ Len(Now[p[1]].Hosts) = 2

(***************************************************************************)
(* What is logged of a failed cycle.                                       *)
(***************************************************************************)
\* the cycle failed because the endpoint's host could not be reached or
\* resolved
EndpointUnavailable(err) == err \in {"Post: connection refused", "Post: no such host"}

HandledFailure == logged.err # ""

\* C32: of a failed cycle whose error is a refused connection or a DNS
\* failure the first of a run of consecutive failures is logged, every fifth
\* is logged at low verbosity and the others are not logged above debug
\* level; a failed cycle with any other error is logged as an error.
C32_SparseLogging ==
    HandledFailure =>
        IF EndpointUnavailable(logged.err)
        THEN CASE failureCount = 1 -> logged.level = "info"
               [] failureCount # 1 /\ failureCount % 5 = 0 -> logged.level = "v1"
               [] OTHER -> logged.level \in {"none", "v2"}
        ELSE logged.level = "error"

C32_Witness ==
    /\ logged.err = "Post: tls handshake"
    /\ failureCount = 5
    /\ logged.level = "v1"

(***************************************************************************)
(* The lock and what runs outside the cache.                               *)
(***************************************************************************)
Holds(p) == mu.w = p \/ p \in mu.r
NetworkOrParse(p) == pc[p] \in {"Get", "GetSecret", "Parse", "Marshal", "Do", "Sleep"}

\* C33: a goroutine that is reading from the API server, parsing a
\* certificate, marshalling a report, sending it or sleeping a backoff does
\* not hold the cache's lock, for writing or for reading.
C33_LockNotHeldOutside == \A p \in Procs : NetworkOrParse(p) => ~Holds(p)

\* the reporter sleeps a backoff with the entry GetAll returned while the
\* secret reconciler holds the lock and writes
C33_Witness ==
    /\ \E p \in Procs : pc[p] = "Sleep" /\ Len(loc[p].ret) = 1
    /\ \E p \in Procs : pc[p] = "Host" /\ loc[p].call.op = "UpdateCertificate" /\ mu.w = p
    /\ DOMAIN items # {}

(***************************************************************************)
(* The caller of Add keeps its argument and assigns to it.                 *)
(***************************************************************************)
\* C34: after the caller has mutated any part of the object it passed to
\* Add, every snapshot GetAll may return holds, key for key, the entries the
\* cache held before the mutation, so the entry is as it was when Add
\* returned.
C34_StoreOwnsEntries ==
    last.op \in Mutations =>
        /\ DOMAIN items = DOMAIN before
        /\ \A keys \in RangeOrders(DOMAIN items) :
              SnapshotValues(heap, items, keys) = [i \in 1..Len(keys) |-> before[keys[i]]]

\* the caller renamed the host of the entry it had added, and the cache
\* holds the new name
C34_Witness ==
    /\ last.op = "SetHost"
    /\ \E k \in DOMAIN Now :
          /\ k \in DOMAIN before
          /\ before[k].Hosts[1].Host = "h1"
          /\ Now[k].Hosts[1].Host = "modified.local"

(***************************************************************************)
(* What failureCount counts.                                               *)
(***************************************************************************)
\* the log record is that of a report that could not be delivered
LoggedAsDeliveryFailure ==
    logged.msg \in {"failed to send initial report", "failed to send periodic report",
                    "waiting for report server to be available",
                    "report server still unavailable",
                    "report server not reachable, will retry"}

\* C39: a cycle that ended because sendReport saw the context cancelled
\* leaves failureCount as it was when the cycle began, and what Start logs
\* for it is not the record of a failed delivery.
C39_CancelNotCounted ==
    (cycle.result = "cancelled" /\ logged.err = cycle.err) =>
        /\ failureCount = cycle.count
        /\ ~LoggedAsDeliveryFailure

\* a periodic cycle is cancelled before its first attempt: failureCount
\* goes from 0 to 1 and the error log has "failed to send periodic report"
C39_Witness ==
    /\ cycle.result = "cancelled"
    /\ cycle.trigger = "tick"
    /\ Attempts = 0
    /\ cycle.count = 0
    /\ failureCount = 1
    /\ logged = LogRecord("error", "failed to send periodic report", "context canceled", FALSE)

(***************************************************************************)
(* The report of a cycle.                                                  *)
(***************************************************************************)
\* the report is of the cache as the value sv, under the configured name
ReportOf(sv) ==
    /\ jsonData.Cluster = cfg.ClusterName
    /\ Len(jsonData.Ingresses) = Cardinality(DOMAIN sv)
    /\ Range(jsonData.Ingresses) = Range(sv)

\* C37: a cycle calls GetAll once, when it begins, and marshals the result
\* once: jsonData is the report of the cache as it was then, under
\* cfg.ClusterName, it stays the same through every attempt and backoff of
\* the cycle whatever is written to the cache meanwhile, and the cycle that
\* begins next reports the cache as it is when that one begins.
C37_SnapshotState == ncycles >= 1 => ReportOf(cycle.store)

C37_SnapshotStep ==
    [][/\ ncycles' = ncycles => jsonData' = jsonData
       /\ ncycles' # ncycles => cycle'.store = Now]_vars

C37_OneSnapshotPerCycle == []C37_SnapshotState /\ C37_SnapshotStep

\* the cache was written during the backoff after the first attempt: the
\* second attempt is on its way with the report of the cache as it was
C37_Witness ==
    /\ rpc = "do"
    /\ attempt = 2
    /\ Attempts = 1
    /\ cycle.store = <<>>
    /\ DOMAIN Now # {}
    /\ jsonData.Ingresses = <<>>

(***************************************************************************)
(* One report at a time.                                                   *)
(***************************************************************************)
\* sendReport is running
Running == cycle.result = "running"
\* a request is on its way
InFlight == rpc = "do"

\* C40: Start calls sendReport from its own loop and waits for it: a
\* request on its way is the next attempt of the one cycle that is running,
\* a cycle begins only when none is running, failureCount changes only when
\* sendReport returns to Start, and a tick delivered while a cycle is
\* running starts nothing, it waits in ticker.C.
C40_OneCycleState ==
    /\ InFlight => Running /\ attempt = Attempts + 1
    /\ Running <=> rpc \in {"check", "do", "sleep"}

C40_OneCycleStep ==
    [][/\ ncycles' # ncycles => ~Running /\ Running' /\ ncycles' = ncycles + 1
       /\ failureCount' # failureCount => Running /\ ~Running'
       /\ nticks' # nticks => UNCHANGED <<rpc, cycle, attempt, ncycles, failureCount>>]_vars

C40_CyclesNeverOverlap == []C40_OneCycleState /\ C40_OneCycleStep

\* a tick is delivered during the backoff of a periodic cycle and waits
C40_Witness ==
    /\ ticker = "tick"
    /\ rpc = "sleep"
    /\ Running
    /\ cycle.trigger = "tick"
    /\ nticks = 2
    /\ ncycles = 2

(***************************************************************************)
(* What a reconciliation of one Ingress leaves alone.                      *)
(***************************************************************************)
\* the entries under the keys other than k are in sv and in tv the same
SameButFor(sv, tv, k) ==
    /\ DOMAIN sv \ {k} = DOMAIN tv \ {k}
    /\ \A j \in DOMAIN sv \ {k} : sv[j] = tv[j]

\* C38: Reconcile of the Ingress (ns, n) writes the cache under the key of
\* (ns, n) or not at all: found, not found or failing for another reason,
\* it leaves every entry under another key as it was; and when r.Get fails
\* for a reason other than not-found it returns the error and the cache is
\* as it was before.
C38_ReconcileFrame ==
    last.op = "Reconcile" =>
        /\ SameButFor(before, Now, Key(last.Namespace, last.Name))
        /\ last.get.kind = "error" => last.err # "" /\ Now = before

\* the cache holds two Ingresses; one is reconciled and its entry replaced
\* by another, and the other's entry stays
C38_Witness ==
    /\ Found
    /\ Cardinality(DOMAIN before) = 2
    /\ Written # before[Key(last.Namespace, last.Name)]
    /\ \E k \in DOMAIN before : k # Key(last.Namespace, last.Name) /\ Now[k] = before[k]

(***************************************************************************)
(* The two controllers at work (SetupWithManager of both reconcilers).     *)
(*                                                                         *)
(* The manager's informers hold the Ingresses and the Secrets; a change    *)
(* reaches an informer, and then the handlers put the requests it gives    *)
(* rise to on the work queues.  Each controller has one worker, which takes*)
(* a name off its queue and runs Reconcile for it; a name is on a queue at *)
(* most once, a name put there while its Reconcile runs is reconciled      *)
(* again afterwards, and a Reconcile that returns an error has its name put*)
(* back.  r.Get reads the informers.  All Secrets are of type TLS with a   *)
(* certificate that parses, in one namespace.                              *)
(***************************************************************************)
MaxEvents == 3
WatchNamespace == "a"
WatchNames == {"c", "bc"}
WatchCerts == {"cB"}
WatchIngresses == {Ingress(<<"h1">>, <<>>), Ingress(<<"h1">>, <<IngressTLS(<<"h1">>, "cB")>>)}

\* findIngressesForSecret, lines 195-211: the Ingresses with a TLS entry
\* that names the Secret
findIngressesForSecret(ingress, c) ==
    {n \in DOMAIN ingress : \E i \in DOMAIN ingress[n].TLS : ingress[n].TLS[i].SecretName = c}

\* the requests a Secret event puts on the Ingress controller's queue;
\* lines 190-193: none when r.List fails
SecretRequests(c, listed) == IF listed THEN findIngressesForSecret(api.ingress, c) ELSE {}

\* For(&networkingv1.Ingress{}): an Ingress is created or updated
IngressApplied(n, ing) ==
    /\ nevents < MaxEvents
    /\ IF n \in DOMAIN api.ingress THEN api.ingress[n] # ing ELSE TRUE
    /\ api' = [api EXCEPT !.ingress = MapPut(@, n, ing)]
    /\ queue' = [queue EXCEPT !.ing = @ \cup {n}]
    /\ nevents' = nevents + 1
    /\ UNCHANGED <<heap, items, seqvars, lockvars, reportervars, worker>>

\* For(&networkingv1.Ingress{}): an Ingress is deleted
IngressDeleted(n) ==
    /\ nevents < MaxEvents
    /\ n \in DOMAIN api.ingress
    /\ api' = [api EXCEPT !.ingress = MapDelete(@, n)]
    /\ queue' = [queue EXCEPT !.ing = @ \cup {n}]
    /\ nevents' = nevents + 1
    /\ UNCHANGED <<heap, items, seqvars, lockvars, reportervars, worker>>

\* For(&corev1.Secret{}) and Watches(&corev1.Secret{}, ...): a Secret is
\* created, or updated with a certificate of another NotAfter
SecretApplied(c, t, listed) ==
    /\ nevents < MaxEvents
    /\ IF c \in DOMAIN api.secret THEN api.secret[c] # t ELSE TRUE
    /\ api' = [api EXCEPT !.secret = MapPut(@, c, t)]
    /\ queue' = Queues(queue.ing \cup SecretRequests(c, listed), queue.sec \cup {c})
    /\ nevents' = nevents + 1
    /\ UNCHANGED <<heap, items, seqvars, lockvars, reportervars, worker>>

\* the same for a Secret that is deleted
SecretDeleted(c, listed) ==
    /\ nevents < MaxEvents
    /\ c \in DOMAIN api.secret
    /\ api' = [api EXCEPT !.secret = MapDelete(@, c)]
    /\ queue' = Queues(queue.ing \cup SecretRequests(c, listed), queue.sec \cup {c})
    /\ nevents' = nevents + 1
    /\ UNCHANGED <<heap, items, seqvars, lockvars, reportervars, worker>>

\* the Ingress controller's worker takes a name off the queue
IngressDequeue(n) ==
    /\ worker.ing.stage = "idle"
    /\ n \in queue.ing
    /\ queue' = [queue EXCEPT !.ing = @ \ {n}]
    /\ worker' = [worker EXCEPT !.ing = IngressWork("get", n, NoIngressWork.ing, <<>>)]
    /\ UNCHANGED <<heap, items, seqvars, lockvars, reportervars, api, nevents>>

\* IngressReconciler.Reconcile that returns nil when r.Get fails
IngressGetNoRetry(ok) ==
    /\ worker.ing.stage = "get"
    /\ LET n == worker.ing.name
       IN IF ~ok
          THEN /\ worker' = [worker EXCEPT !.ing = NoIngressWork]
               /\ UNCHANGED queue
          ELSE /\ worker' = [worker EXCEPT !.ing =
                                IF n \notin DOMAIN api.ingress THEN IngressWork("delete", n, @.ing, <<>>)
                                ELSE IF SecretNames(api.ingress[n]) = {}
                                THEN IngressWork("add", n, api.ingress[n], <<>>)
                                ELSE IngressWork("secrets", n, api.ingress[n], <<>>)]
               /\ UNCHANGED queue
    /\ UNCHANGED <<heap, items, seqvars, lockvars, reportervars, api, nevents>>

\* IngressReconciler.Reconcile, lines 39-49: r.Get; its error, unless it is
\* not-found, is returned, and the controller puts the name back
IngressGet(ok) ==
    /\ worker.ing.stage = "get"
    /\ LET n == worker.ing.name
       IN IF ~ok
          THEN /\ worker' = [worker EXCEPT !.ing = NoIngressWork]
               /\ queue' = [queue EXCEPT !.ing = @ \cup {n}]
          ELSE /\ worker' = [worker EXCEPT !.ing =
                                IF n \notin DOMAIN api.ingress THEN IngressWork("delete", n, @.ing, <<>>)
                                ELSE IF SecretNames(api.ingress[n]) = {}
                                THEN IngressWork("add", n, api.ingress[n], <<>>)
                                ELSE IngressWork("secrets", n, api.ingress[n], <<>>)]
               /\ UNCHANGED queue
    /\ UNCHANGED <<heap, items, seqvars, lockvars, reportervars, api, nevents>>

\* lines 41-45: the Ingress is gone
IngressDelete ==
    /\ worker.ing.stage = "delete"
    /\ items' = DeleteBody(items, WatchNamespace, worker.ing.name)
    /\ worker' = [worker EXCEPT !.ing = NoIngressWork]
    /\ UNCHANGED <<heap, seqvars, lockvars, reportervars, api, queue, nevents>>

\* updateCache, lines 95-126: r.Get for the Secrets of the TLS section; the
\* lookups of the names in failing fail, as do those of Secrets that are gone
IngressGetSecrets(failing) ==
    /\ worker.ing.stage = "secrets"
    /\ worker' = [worker EXCEPT !.ing =
                     IngressWork("add", @.name, @.ing,
                                 [c \in SecretNames(@.ing) |->
                                     IF c \in DOMAIN api.secret /\ c \notin failing
                                     THEN Secret("cert", api.secret[c]) ELSE Unavailable])]
    /\ UNCHANGED <<heap, items, seqvars, lockvars, reportervars, api, queue, nevents>>

\* updateCache, lines 128-159: the entry is built and r.Cache.Add stores it
IngressAdd(order) ==
    /\ worker.ing.stage = "add"
    /\ order \in RangeOrders(Hosts(worker.ing.ing))
    /\ LET info == BuildInfo(heap, WatchNamespace, worker.ing.name, worker.ing.ing,
                             worker.ing.look, order)
       IN /\ heap' = info.heap
          /\ items' = AddBody(items, info.heap, info.addr)
    /\ worker' = [worker EXCEPT !.ing = NoIngressWork]
    /\ UNCHANGED <<seqvars, lockvars, reportervars, api, queue, nevents>>

\* the Secret controller's worker takes a name off the queue
SecretDequeue(c) ==
    /\ worker.sec.stage = "idle"
    /\ c \in queue.sec
    /\ queue' = [queue EXCEPT !.sec = @ \ {c}]
    /\ worker' = [worker EXCEPT !.sec = SecretWork("get", c, NoTime)]
    /\ UNCHANGED <<heap, items, seqvars, lockvars, reportervars, api, nevents>>

\* SecretReconciler.Reconcile, lines 34-58: r.Get and the parse; the error
\* of r.Get, unless it is not-found, is returned and the name put back
SecretGetAndParse(ok) ==
    /\ worker.sec.stage = "get"
    /\ LET c == worker.sec.name
       IN IF ~ok
          THEN /\ worker' = [worker EXCEPT !.sec = NoSecretWork]
               /\ queue' = [queue EXCEPT !.sec = @ \cup {c}]
          ELSE /\ worker' = [worker EXCEPT !.sec =
                                SecretWork("update", c,
                                           IF c \in DOMAIN api.secret THEN api.secret[c] ELSE NoTime)]
               /\ UNCHANGED queue
    /\ UNCHANGED <<heap, items, seqvars, lockvars, reportervars, api, nevents>>

\* lines 39 and 60-63: r.Cache.UpdateCertificate with nil or the NotAfter
SecretUpdateCertificate ==
    /\ worker.sec.stage = "update"
    /\ LET e == NewTime(heap, worker.sec.t)
       IN heap' = UpdateCertificateBody(e.heap, items, WatchNamespace, worker.sec.name, e.addr)
    /\ worker' = [worker EXCEPT !.sec = NoSecretWork]
    /\ UNCHANGED <<items, seqvars, lockvars, reportervars, api, queue, nevents>>

NextWatch ==
    \/ \E n \in WatchNames, ing \in WatchIngresses : IngressApplied(n, ing)
    \/ \E n \in WatchNames : IngressDeleted(n)
    \/ \E c \in WatchCerts, t \in Times, listed \in BOOLEAN : SecretApplied(c, t, listed)
    \/ \E c \in WatchCerts, listed \in BOOLEAN : SecretDeleted(c, listed)
    \/ \E n \in WatchNames : IngressDequeue(n)
    \/ \E ok \in BOOLEAN : IngressGet(ok)
    \/ IngressDelete
    \/ \E failing \in SUBSET WatchCerts : IngressGetSecrets(failing)
    \/ \E order \in RangeOrders(Hosts(worker.ing.ing)) : IngressAdd(order)
    \/ \E c \in WatchCerts : SecretDequeue(c)
    \/ \E ok \in BOOLEAN : SecretGetAndParse(ok)
    \/ SecretUpdateCertificate

SpecWatch == Init /\ [][NextWatch]_vars

\* nothing is queued and no Reconcile is running
Quiescent ==
    /\ queue = NoRequests
    /\ worker = Workers(NoIngressWork, NoSecretWork)

(***************************************************************************)
(* Where the cache ends up once the events have been dealt with.           *)
(***************************************************************************)
\* the cache has an entry for the Ingress n, and every certificate in it
\* whose Secret exists has the NotAfter of the Secret as it is now
FreshEntry(n) ==
    /\ Key(WatchNamespace, n) \in DOMAIN Now
    /\ \A j \in DOMAIN Now[Key(WatchNamespace, n)].Hosts :
          LET c == Now[Key(WatchNamespace, n)].Hosts[j].Certificate
          IN (c.present /\ c.Name \in DOMAIN api.secret) => c.Expires = api.secret[c.Name]

\* C35: when every request the events gave rise to has been reconciled, the
\* cache has for every Ingress that exists an entry in which each
\* certificate whose Secret exists and parses has the NotAfter of the
\* Secret's current certificate, whatever the order in which the two
\* controllers read the Secret and wrote to the cache.
C35_EventualFreshness == Quiescent => \A n \in DOMAIN api.ingress : FreshEntry(n)

\* nothing is left to reconcile, the Ingress names a Secret that exists, and
\* its entry has no expiry for it or the one of an earlier certificate
C35_Witness ==
    /\ Quiescent
    /\ \E n \in DOMAIN api.ingress :
          /\ Key(WatchNamespace, n) \in DOMAIN Now
          /\ \E j \in DOMAIN Now[Key(WatchNamespace, n)].Hosts :
                LET c == Now[Key(WatchNamespace, n)].Hosts[j].Certificate
                IN /\ c.present
                   /\ c.Name \in DOMAIN api.secret
                   /\ c.Expires # api.secret[c.Name]

\* the hosts of the entry e with the name of the certificate of each, ""
\* for none
Bindings(e) ==
    {<<e.Hosts[j].Host, IF e.Hosts[j].Certificate.present THEN e.Hosts[j].Certificate.Name ELSE "">> :
        j \in DOMAIN e.Hosts}

\* the same of the Ingress ing: lines 66-92 and 136-156
BindingsOf(ing) ==
    LET hostToCert == HostToCert(ing.TLS, Len(ing.TLS))
    IN IF Hosts(ing) = {} THEN {<<"", "">>}
       ELSE {<<h, IF h \in DOMAIN hostToCert THEN hostToCert[h] ELSE "">> : h \in Hosts(ing)}

\* the cache has one entry for each Ingress that exists, made of the
\* Ingress as it is now, and no other entry
Converged ==
    /\ DOMAIN Now = {Key(WatchNamespace, n) : n \in DOMAIN api.ingress}
    /\ \A n \in DOMAIN api.ingress :
          LET e == Now[Key(WatchNamespace, n)]
          IN /\ e.Namespace = WatchNamespace
             /\ e.Name = n
             /\ Bindings(e) = BindingsOf(api.ingress[n])
             /\ Len(e.Hosts) = Cardinality(Bindings(e))

\* C36: when every request the events gave rise to has been reconciled, the
\* one worker of the Ingress controller having taken the requests for a name
\* one after the other, the cache holds exactly one entry for every Ingress
\* that exists, with the hosts and certificate names of the Ingress as it is
\* now, and none for an Ingress that was deleted; and once the events have
\* stopped the cache comes to that and stays so.
C36_ConvergedWhenQuiescent == Quiescent => Converged

C36_StoreConverges == []C36_ConvergedWhenQuiescent /\ <>[](Quiescent /\ Converged)

\* the Ingress bc was created, reconciled and deleted, the Ingress c was
\* created, and the cache holds the entry of c only
C36_Witness ==
    /\ Quiescent
    /\ nevents = MaxEvents
    /\ \E a \in DOMAIN heap : heap[a].kind = "IngressInfo" /\ heap[a].Name = "bc"
    /\ DOMAIN api.ingress = {"c"}
    /\ DOMAIN Now = {Key(WatchNamespace, "c")}
    /\ api.ingress["c"] = Ingress(<<"h1">>, <<IngressTLS(<<"h1">>, "cB")>>)
    /\ Bindings(Now[Key(WatchNamespace, "c")]) = {<<"h1", "cB">>}

\* the workers go on with what they have begun and with what is queued, and
\* r.Get does not fail for ever
SpecWatchFair ==
    /\ SpecWatch
    /\ \A n \in WatchNames : WF_vars(IngressDequeue(n))
    /\ WF_vars(IngressGet(TRUE) \/ IngressGet(FALSE)) /\ SF_vars(IngressGet(TRUE))
    /\ WF_vars(IngressDelete)
    /\ WF_vars(\E failing \in SUBSET WatchCerts : IngressGetSecrets(failing))
    /\ WF_vars(\E order \in RangeOrders(Hosts(worker.ing.ing)) : IngressAdd(order))
    /\ \A c \in WatchCerts : WF_vars(SecretDequeue(c))
    /\ WF_vars(SecretGetAndParse(TRUE) \/ SecretGetAndParse(FALSE)) /\ SF_vars(SecretGetAndParse(TRUE))
    /\ WF_vars(SecretUpdateCertificate)


====
